---- MODULE Spec2Model ----
(***************************************************************************)
(* A model of mozaik's retina/LGN input pipeline                           *)
(* (mozaik/models/vision/spatiotemporalfilter.py) and of its modular       *)
(* connectors (mozaik/connectors/modular.py).                              *)
(*                                                                         *)
(* Conventions.  numpy arrays are functions over 0..(n-1), so that every   *)
(* index of the model is the index of the source.  Real quantities are     *)
(* integers in a fixed unit: times of the retina model in units of the     *)
(* smallest time quantum, delays of the connectors in hundredths of a      *)
(* millisecond, luminances and kernel values as integers.  The kernel is   *)
(* kept as the numerators of kernel = func / (nx*ny*nt); the common        *)
(* denominator is the field norm.                                          *)
(***************************************************************************)
EXTENDS Integers, Sequences, FiniteSets, TLC

VARIABLES
    \* ---- CellWithReceptiveField and its collaborators
    vs,         \* the visual space: update_interval, background_luminance
    rf,         \* the SpatioTemporalReceptiveField the cell refers to
    gain,       \* gain_control.gain (non_linear_gain is None)
    cell,       \* the fields of the CellWithReceptiveField object
    cell_pc,    \* "none", "error", "UNINITIALIZED", "ACCUMULATING", "FINALIZED"
    cell_out,   \* what response_current() returned
    cell_hist,  \* history: stimulus_duration, views made, were all frames blank
    rf_call     \* the last rf.quantize(dx, dy, dt) call, its outcome, calls made

cellvars == <<vs, rf, gain, cell, cell_pc, cell_out, cell_hist, rf_call>>

VARIABLES
    \* ---- SpatioTemporalFilterRetinaLGN and its collaborators
    parameters,     \* cached, linear_scaler, gain, store_stimuli
    mpi_size,       \* mozaik.mpi_comm.size
    mask_local,     \* per population, pop._mask_local
    disk,           \* the cache directory: the index stimuli.st and the files <id>.st
    cached_stimuli, \* the attribute self.cached_stimuli, unset until get_cache sets it
    internal_stimulus_cache,    \* self.internal_stimulus_cache
    retina_pc,      \* "running", or "crashed" once a call has raised
    last,           \* the last call: what it was given, used, injected and touched
    calculated,     \* per stimulus name, the _calculate_input_currents() calls made
    ncalls          \* calls made so far

retinavars == <<parameters, mpi_size, mask_local, disk, cached_stimuli,
                internal_stimulus_cache, retina_pc, last, calculated, ncalls>>

VARIABLES
    \* ---- a connector of the ModularConnector family
    conn_pc,        \* "idle", "new", "constructed", "construct_failed",
                    \* "delays_obtained", "connected", "connect_failed"
    conn_params,    \* the parameters and the populations the connector is given
    conn_self,      \* the attributes the connector holds
    conn_log        \* the exception raised, if any, and the warnings logged

connvars == <<conn_pc, conn_params, conn_self, conn_log>>

VARIABLES
    \* ---- run_workflow started by the ranks of an MPI job
    mpi_ranks,      \* the number of processes of the job
    filesystem,     \* the directories that exist, as paths from the working directory
    root_directory, \* per rank, Global.root_directory
    rank_pc         \* per rank, where it is in run_workflow and in os.makedirs

ctlvars == <<mpi_ranks, filesystem, root_directory, rank_pc>>

VARIABLES
    \* ---- a PickledDataStoreNeoWrapper and the file of its segment
    segment,        \* the object: full, and the lazily loaded attributes it holds
    segment_file,   \* the segment pickled at datastore_path/identifier.pickle
    segment_last,   \* the last call made on the object and what it returned
    segment_calls   \* the number of calls made

storevars == <<segment, segment_file, segment_last, segment_calls>>

vars == <<cellvars, retinavars, connvars, ctlvars, storevars>>

(***************************************************************************)
(* Bounds of the model.                                                    *)
(***************************************************************************)
MaxKernelDuration == 3 \* duration of a receptive field is 1..MaxKernelDuration (x dt)
MaxDuration == 4      \* stimulus_duration is 1..MaxDuration
MaxViews == 4         \* view() calls made on one cell
MaxCalls == 3         \* process_input / provide_null_input calls of one run
NCells == 2           \* neurons of each of the two populations

(***************************************************************************)
(* The values the inputs are drawn from.                                   *)
(***************************************************************************)
Extents == {1, 2}       \* width = height of a receptive field
Luminances == {1, 2}    \* background luminance of the visual space
Gains == {1, 2}         \* gain_control.gain
Trials == {1, 2}        \* trial numbers of a stimulus
Offsets == {0, 10}      \* offset of a presentation
MpiSizes == {1, 2}      \* mozaik.mpi_comm.size
LuminanceLevels == 4    \* pixel values of a frame are 0..(LuminanceLevels - 1)

(***************************************************************************)
(* numpy helpers.                                                          *)
(***************************************************************************)
Size(a) == Cardinality(DOMAIN a)

\* an array with every entry computed, as numpy holds it
Array(f) == f @@ <<>>

Zeros(n) == Array([j \in 0..(n - 1) |-> 0])

\* numpy.ceil(a / b) for a >= 0, b > 0
Ceil(a, b) == (a + b - 1) \div b

RECURSIVE SumRange(_, _, _)
\* a[lo:hi].sum() for 0 <= lo, hi <= len(a)
SumRange(a, lo, hi) == IF lo >= hi THEN 0 ELSE a[lo] + SumRange(a, lo + 1, hi)

Sum(a) == SumRange(a, 0, Size(a))

Min(a, b) == IF a < b THEN a ELSE b

Max(a, b) == IF a > b THEN a ELSE b

Abs(a) == IF a < 0 THEN -a ELSE a

(***************************************************************************)
(* SpatioTemporalReceptiveField.                                           *)
(***************************************************************************)
RfFuncs == {"uniform", "biphasic", "ramp"}

\* func(X, Y, T, func_params) at the grid cell (iy, ix, it): the analytic
\* receptive field function is a parameter of the model (P_rf.func).
RfFunc(func, iy, ix, it) ==
    CASE func = "uniform" -> 1
      [] func = "biphasic" -> IF it % 2 = 0 THEN 1 + ix + iy ELSE -(1 + ix + iy)
      [] func = "ramp" -> 2 - it + ix

\* the OFF cells given the function of the ON cells
RfFuncNotNegated(func, iy, ix, it) == RfFunc(func, iy, ix, it)

\* The receptive field of the OFF cells: lambda x, y, t, p: -1.0 * rf_function(x, y, t, p)
RfFuncOFF(func, iy, ix, it) == -1 * RfFunc(func, iy, ix, it)

SpatioTemporalReceptiveField(func, off, width, height, duration) ==
    [func |-> func, off |-> off, width |-> width, height |-> height,
     duration |-> duration, quantized |-> FALSE, kernel |-> <<>>, norm |-> 1,
     ny |-> 0, nx |-> 0, spatial_resolution |-> 0, temporal_resolution |-> 0]

\* quantize(dx, dy, dt), the assertion dx == dy holding.  kernel[t][p] is
\* reshaped_kernel: the kernel flattened over (y, x), against time, transposed.
quantize(r, dx, dy, dt) ==
    LET nx == Ceil(r.width, dx)
        ny == Ceil(r.height, dy)
        nt == Ceil(r.duration, dt)
    IN  [r EXCEPT !.quantized = TRUE,
                  !.kernel = Array([t \in 0..(nt - 1) |->
                                Array([p \in 0..(ny * nx - 1) |->
                                    IF r.off
                                    THEN RfFuncOFF(r.func, p \div nx, p % nx, t)
                                    ELSE RfFunc(r.func, p \div nx, p % nx, t)])]),
                  !.norm = nx * ny * nt,
                  !.ny = ny,
                  !.nx = nx,
                  !.spatial_resolution = dx,
                  !.temporal_resolution = dt]

kernel_duration(r) == Size(r.kernel)

RECURSIVE KernelSliceSum(_, _, _)
\* kernel[:, :, a:b].sum()
KernelSliceSum(r, a, b) ==
    IF a >= b THEN 0 ELSE Sum(r.kernel[a]) + KernelSliceSum(r, a + 1, b)

\* numpy.sum(kernel.flatten())
KernelSum(r) == KernelSliceSum(r, 0, kernel_duration(r))

(***************************************************************************)
(* CellWithReceptiveField.                                                 *)
(***************************************************************************)
NoCell ==
    [update_factor |-> 0, response_length |-> 0, background_luminance |-> 0,
     response |-> <<>>, std |-> <<>>, mean |-> <<>>, i |-> 0]

\* the check as the error message words it: the temporal resolution a
\* multiple of the update interval
CellConfigOkReversed(space, r) == r.temporal_resolution % space.update_interval = 0

\* __init__: the check of the update interval against the kernel's resolution
CellConfigOk(space, r) == space.update_interval % r.temporal_resolution = 0

CellNew(space, r) ==
    [NoCell EXCEPT !.update_factor = space.update_interval \div r.temporal_resolution]

\* initialize() without the padding of kernel_duration entries
initialize_unpadded(c, r, background_luminance, stimulus_duration) ==
    LET response_length == Ceil(stimulus_duration, r.temporal_resolution)
    IN  [c EXCEPT !.response_length = response_length,
                  !.background_luminance = background_luminance,
                  !.response = Zeros(response_length),
                  !.std = Zeros(response_length),
                  !.mean = Zeros(response_length),
                  !.i = 0]

\* len(a[lo : hi]) for 0 <= lo <= hi: the slice is clipped to the array
SliceLength(a, lo, hi) == Max(0, Min(Size(a), hi) - Min(Size(a), lo))

\* initialize(background_luminance, stimulus_duration)
initialize(c, r, background_luminance, stimulus_duration) ==
    LET L == kernel_duration(r)
        response_length == Ceil(stimulus_duration, r.temporal_resolution) + L
        \* for i in range(L): response[i] += B * kernel[:, :, i + 1 : L].sum()
        head == Array([j \in 0..(response_length - 1) |->
                    IF j < L
                    THEN background_luminance * KernelSliceSum(r, j + 1, L)
                    ELSE 0])
        \* for i in range(L): response[-(i + 1)] += B * kernel[:, :, 0 : L - i].sum()
        tail == Array([j \in 0..(response_length - 1) |->
                    LET i == response_length - 1 - j
                    IN  IF i < L
                        THEN head[j] + background_luminance * KernelSliceSum(r, 0, L - i)
                        ELSE head[j]])
    IN  [c EXCEPT !.response_length = response_length,
                  !.background_luminance = background_luminance,
                  !.response = tail,
                  !.std = Zeros(response_length),
                  !.mean = Zeros(response_length),
                  !.i = 0]

\* numpy.dot(reshaped_kernel, view_array.reshape(-1))
TimeCourse(r, view_array) ==
    Array([t \in 0..(kernel_duration(r) - 1) |->
        Sum(Array([p \in DOMAIN view_array |-> r.kernel[t][p] * view_array[p]]))])

\* response[j : j + L] += time_course[: len(response[j : j + L])]
AddTimeCourse(response, j, time_course) ==
    Array([n \in DOMAIN response |->
        IF n >= j /\ n < j + Size(time_course)
        THEN response[n] + time_course[n - j]
        ELSE response[n]])

RECURSIVE AddTimeCourses(_, _, _, _)
\* for j in range(lo, hi): response[j : j + L] += time_course[...]
AddTimeCourses(response, lo, hi, time_course) ==
    IF lo >= hi
    THEN response
    ELSE AddTimeCourses(AddTimeCourse(response, lo, time_course), lo + 1, hi, time_course)

\* numpy.mean(view_array) times the number of pixels
MeanStat(view_array) == Sum(view_array)

\* numpy.std(view_array) as the variance times the squared number of pixels
StdStat(view_array) ==
    Size(view_array)
        * Sum(Array([p \in DOMAIN view_array |-> view_array[p] * view_array[p]]))
        - Sum(view_array) * Sum(view_array)

\* a[lo : hi] = v
SetSlice(a, lo, hi, v) ==
    Array([n \in DOMAIN a |-> IF n >= lo /\ n < hi THEN v ELSE a[n]])

\* view() adding the time course once per frame, whatever the update factor
view_once(c, r, view_array) ==
    [c EXCEPT !.response = AddTimeCourse(c.response, c.i, TimeCourse(r, view_array)),
              !.i = c.i + c.update_factor]

\* view(), view_array being what visual_space.view() returned
view(c, r, view_array) ==
    [c EXCEPT !.std = SetSlice(c.std, c.i, c.i + c.update_factor, StdStat(view_array)),
              !.mean = SetSlice(c.mean, c.i, c.i + c.update_factor, MeanStat(view_array)),
              !.response =
                  IF c.update_factor # 1
                  THEN AddTimeCourses(c.response, c.i, c.i + c.update_factor,
                                      TimeCourse(r, view_array))
                  ELSE AddTimeCourse(c.response, c.i, TimeCourse(r, view_array)),
              !.i = c.i + c.update_factor]

\* numpy.convolve(a, v, mode="same") for len(a) >= len(v)
ConvolveSame(a, v) ==
    LET shift == (Size(v) - 1) - (Size(v) \div 2)
        full(n) == Sum(Array([m \in DOMAIN v |->
                          IF n - m \in DOMAIN a THEN a[n - m] * v[m] ELSE 0]))
    IN  Array([n \in DOMAIN a |-> full(n + shift)])

\* the mean over space of abs(kernel), times the number of pixels
MeanAbsKernel(r) ==
    Array([t \in DOMAIN r.kernel |->
        Sum(Array([p \in DOMAIN r.kernel[t] |-> Abs(r.kernel[t][p])]))])

\* response_current() on the linear path: the cell object after the call
response_current_cell(c, r) ==
    LET k == MeanAbsKernel(r)
        L == Size(k)
    IN  [c EXCEPT !.std = ConvolveSame(c.std, Array([t \in DOMAIN k |-> k[L - 1 - t]]))]

\* response_current() without the removal of the padding at the end
response_current_padded(c, r, g) ==
    LET n == c.response_length
    IN  [times |-> Array([j \in 0..(n - 1) |-> r.temporal_resolution * j]),
         amplitudes |-> Array([j \in 0..(n - 1) |-> g * c.response[j]])]

\* response_current() on the linear path: the dictionary returned
response_current(c, r, g) ==
    LET n == c.response_length - kernel_duration(r)
    IN  [times |-> Array([j \in 0..(n - 1) |-> r.temporal_resolution * j]),
         amplitudes |-> Array([j \in 0..(n - 1) |-> g * c.response[j]])]

(***************************************************************************)
(* The life of one cell: __init__, initialize, view*, response_current.    *)
(***************************************************************************)
\* the frames a visual space shows: the blank screen, and frames with contrast
BackgroundFrame(r, B) == Array([p \in 0..(r.ny * r.nx - 1) |-> B])

ContrastFrame(r) ==
    Array([p \in 0..(r.ny * r.nx - 1) |-> (p + 1) % LuminanceLevels])

Frames(r, B) == {BackgroundFrame(r, B), ContrastFrame(r)}

\* no quantize() call made on the receptive field yet
NoQuantizeCall ==
    [dx |-> 0, dy |-> 0, dt |-> 0, error |-> "None", n |-> 0, viewed |-> FALSE,
     region |-> [size_x |-> 0, size_y |-> 0], pixel_size |-> 0]

\* the (visual space update interval, kernel temporal resolution) pairs tried
Intervals == {<<1, 1>>, <<2, 1>>, <<2, 2>>, <<4, 2>>, <<3, 2>>, <<1, 2>>}

CellIdle ==
    /\ vs = [update_interval |-> 1, background_luminance |-> 1]
    /\ rf = SpatioTemporalReceptiveField("uniform", FALSE, 1, 1, 1)
    /\ gain = 1
    /\ cell = NoCell
    /\ cell_pc = "idle"
    /\ cell_out = [times |-> <<>>, amplitudes |-> <<>>]
    /\ cell_hist = [stimulus_duration |-> 0, views |-> 0, blank |-> TRUE]
    /\ rf_call = NoQuantizeCall

CellInit ==
    /\ \E iv \in Intervals, B \in Luminances, f \in RfFuncs, off \in BOOLEAN,
          w \in Extents, d \in 1..MaxKernelDuration :
          /\ vs = [update_interval |-> iv[1], background_luminance |-> B]
          /\ rf = quantize(SpatioTemporalReceptiveField(f, off, w, w, d * iv[2]),
                           1, 1, iv[2])
    /\ gain \in Gains
    /\ cell = NoCell
    /\ cell_pc = "none"
    /\ cell_out = [times |-> <<>>, amplitudes |-> <<>>]
    /\ cell_hist = [stimulus_duration |-> 0, views |-> 0, blank |-> TRUE]
    /\ rf_call = NoQuantizeCall

\* CellWithReceptiveField(x, y, receptive_field, gain_control, visual_space)
CellConstruct ==
    /\ cell_pc = "none"
    /\ IF CellConfigOk(vs, rf)
       THEN cell' = CellNew(vs, rf) /\ cell_pc' = "UNINITIALIZED"
       ELSE cell' = cell /\ cell_pc' = "error"
    /\ UNCHANGED <<vs, rf, gain, cell_out, cell_hist, rf_call>>
    /\ UNCHANGED <<retinavars, connvars, ctlvars, storevars>>

CellInitialize ==
    /\ cell_pc = "UNINITIALIZED"
    /\ \E stimulus_duration \in 1..MaxDuration :
          /\ cell' = initialize(cell, rf, vs.background_luminance, stimulus_duration)
          /\ cell_hist' = [stimulus_duration |-> stimulus_duration, views |-> 0,
                           blank |-> TRUE]
    /\ cell_pc' = "ACCUMULATING"
    /\ UNCHANGED <<vs, rf, gain, cell_out, rf_call>>
    /\ UNCHANGED <<retinavars, connvars, ctlvars, storevars>>

CellView ==
    /\ cell_pc = "ACCUMULATING"
    /\ cell_hist.views < MaxViews
    /\ \E view_array \in Frames(rf, vs.background_luminance) :
          /\ cell' = view(cell, rf, view_array)
          /\ cell_hist' = [cell_hist EXCEPT
                 !.views = @ + 1,
                 !.blank = @ /\ view_array = BackgroundFrame(rf, vs.background_luminance)]
    /\ UNCHANGED <<vs, rf, gain, cell_pc, cell_out, rf_call>>
    /\ UNCHANGED <<retinavars, connvars, ctlvars, storevars>>

CellResponseCurrent ==
    /\ cell_pc = "ACCUMULATING"
    /\ cell_out' = response_current(cell, rf, gain)
    /\ cell' = response_current_cell(cell, rf)
    /\ cell_pc' = "FINALIZED"
    /\ UNCHANGED <<vs, rf, gain, cell_hist, rf_call>>
    /\ UNCHANGED <<retinavars, connvars, ctlvars, storevars>>

CellNext == CellConstruct \/ CellInitialize \/ CellView \/ CellResponseCurrent

(***************************************************************************)
(* quantize() on floats.  width, height, duration and the steps are Python *)
(* floats: binary floating point, every operation rounded to the nearest   *)
(* representable value, ties to even.  A float is [m, e], standing for     *)
(* m * 2^e, with m = 0 or 2^(Precision - 1) <= m < 2^Precision.  A double  *)
(* has 53 bits; the model keeps 9, which rounds the decimal fractions used *)
(* here the same way (the binary expansion of 1/10 has period 4).          *)
(***************************************************************************)
Precision == 9

Pow2(n) == 2 ^ n

RECURSIVE Round(_, _, _)
\* the float nearest to (p / q) * 2^e, ties to even
Round(p, q, e) ==
    IF p = 0 THEN [m |-> 0, e |-> 0]
    ELSE IF p >= q * Pow2(Precision) THEN Round(p, 2 * q, e + 1)
    ELSE IF p < q * Pow2(Precision - 1) THEN Round(2 * p, q, e - 1)
    ELSE LET m == p \div q
             r == p % q
             up == 2 * r > q \/ (2 * r = q /\ m % 2 = 1)
         IN  IF ~up THEN [m |-> m, e |-> e]
             ELSE IF m + 1 = Pow2(Precision)
                  THEN [m |-> Pow2(Precision - 1), e |-> e + 1]
                  ELSE [m |-> m + 1, e |-> e]

\* float(num / den) of a decimal literal, and of an integer
Float(num, den) == Round(num, den, 0)

\* numpy.inf: above every finite float
Infinity == [m |-> Pow2(Precision - 1), e |-> 1024]

\* a / b and a * b
FloatDivide(a, b) == Round(a.m, b.m, a.e - b.e)

FloatTimes(a, b) == Round(a.m * b.m, 1, a.e + b.e)

\* numpy.ceil(a) and int(a) of a float a >= 0, as integers
FloatCeil(a) == IF a.e >= 0 THEN a.m * Pow2(a.e) ELSE Ceil(a.m, Pow2(-a.e))

FloatInt(a) == IF a.e >= 0 THEN a.m * Pow2(a.e) ELSE a.m \div Pow2(-a.e)

\* n * a <= k * b in exact arithmetic, n and k integers, a and b floats
ScaledLeq(n, a, k, b) ==
    LET e == Min(a.e, b.e)
    IN  n * a.m * Pow2(a.e - e) <= k * b.m * Pow2(b.e - e)

\* the counts quantize computes, and the lengths of the axes x, y, t it builds
Grid(r, dx, dy, dt) ==
    LET nx == FloatCeil(FloatDivide(r.width, dx))
        ny == FloatCeil(FloatDivide(r.height, dy))
        nt == FloatCeil(FloatDivide(r.duration, dt))
        width == FloatTimes(Float(nx, 1), dx)
        height == FloatTimes(Float(ny, 1), dy)
        duration == FloatTimes(Float(nt, 1), dt)
    IN  [nx |-> nx, ny |-> ny, nt |-> nt,
         \* numpy.linspace(0.0, width - dx, int(width / dx))
         len_x |-> FloatInt(FloatDivide(width, dx)),
         len_y |-> FloatInt(FloatDivide(height, dy)),
         \* numpy.arange(0.0, duration, dt) has ceil((duration - 0.0) / dt) elements
         len_t |-> FloatCeil(FloatDivide(duration, dt))]

\* rf.quantize(dx, dy, dt): the exception raised and the object after the call
AssignThenAssert(r, dx, dy, dt) ==
    [error |-> IF dx = dy THEN "None" ELSE "AssertionError",
     rf |-> [r EXCEPT !.spatial_resolution = dx, !.temporal_resolution = dt]]

\* kernel = self.func(X, Y, T, self.func_params) / (nx * ny * nt) on the mesh
\* of len_y x len_x x len_t points, and the assignments that follow it
Quantized(r, len_y, len_x, len_t, norm, dx, dt) ==
    [r EXCEPT !.quantized = TRUE,
              !.kernel = Array([t \in 0..(len_t - 1) |->
                             Array([p \in 0..(len_y * len_x - 1) |->
                                 IF r.off
                                 THEN RfFuncOFF(r.func, p \div len_x, p % len_x, t)
                                 ELSE RfFunc(r.func, p \div len_x, p % len_x, t)])]),
              !.norm = norm,
              !.ny = len_y,
              !.nx = len_x,
              !.spatial_resolution = dx,
              !.temporal_resolution = dt]

TryQuantize(r, dx, dy, dt) ==
    IF dx # dy
    THEN [error |-> "AssertionError", rf |-> r]
    ELSE LET g == Grid(r, dx, dy, dt)
         IN  [error |-> "None",
              rf |-> Quantized(r, g.len_y, g.len_x, g.len_t, g.nx * g.ny * g.nt,
                               dx, dt)]

\* the sizes of the receptive fields, and the steps they are quantized with
MaxQuantize == 2       \* quantize() calls made on one receptive field
MaxBins == 10          \* time bins of a kernel (nt)

RfExtents == {Float(2, 1), Float(1, 1)}

RfDurations == {Float(100, 1), Float(1, 1), Float(3, 10)}

RfSpaceSteps == {Float(1, 2), Float(7, 10), Float(1, 1)}

RfTimeSteps == {Float(10, 1), Float(4, 10), Float(1, 10)}

QuantizeInit ==
    /\ vs = [update_interval |-> 1, background_luminance |-> 1]
    /\ \E f \in {"biphasic"}, off \in BOOLEAN, width \in RfExtents,
          height \in RfExtents, duration \in RfDurations :
          rf = [SpatioTemporalReceptiveField(f, off, width, height, duration)
                   EXCEPT !.spatial_resolution = Infinity,
                          !.temporal_resolution = Infinity]
    /\ gain = 1
    /\ cell = NoCell
    /\ cell_pc = "idle"
    /\ cell_out = [times |-> <<>>, amplitudes |-> <<>>]
    /\ cell_hist = [stimulus_duration |-> 0, views |-> 0, blank |-> TRUE]
    /\ rf_call = NoQuantizeCall

Quantize ==
    /\ rf_call.n < MaxQuantize
    /\ \E dx \in RfSpaceSteps, dy \in RfSpaceSteps, dt \in RfTimeSteps :
          /\ Grid(rf, dx, dy, dt).nt <= MaxBins
          /\ \E done \in {TryQuantize(rf, dx, dy, dt)} :
                /\ rf' = done.rf
                /\ rf_call' = [NoQuantizeCall EXCEPT
                                  !.dx = dx, !.dy = dy, !.dt = dt,
                                  !.error = done.error, !.n = rf_call.n + 1]
    /\ UNCHANGED <<vs, gain, cell, cell_pc, cell_out, cell_hist>>
    /\ UNCHANGED <<retinavars, connvars, ctlvars, storevars>>

\* a region of the size of the quantized kernel: nx * dx by ny * dy
VisualRegionOfKernel(r) ==
    [size_x |-> FloatTimes(Float(r.nx, 1), r.spatial_resolution),
     size_y |-> FloatTimes(Float(r.ny, 1), r.spatial_resolution)]

\* CellWithReceptiveField.__init__: self.visual_region, centred on the cell
VisualRegion(r) == [size_x |-> r.width, size_y |-> r.height]

\* a cell constructed on the quantized receptive field views a frame: the
\* region and the pixel size it asks the visual space for
ViewRequest ==
    /\ rf.quantized
    /\ ~rf_call.viewed
    /\ rf_call' = [rf_call EXCEPT !.viewed = TRUE,
                                  !.region = VisualRegion(rf),
                                  !.pixel_size = rf.spatial_resolution]
    /\ UNCHANGED <<vs, rf, gain, cell, cell_pc, cell_out, cell_hist>>
    /\ UNCHANGED <<retinavars, connvars, ctlvars, storevars>>

QuantizeNext == Quantize \/ ViewRequest

\* the frames of a stimulus: the rounds of `while t < duration: t = visual_space.update()`
FrameCount(duration, update_interval) == Ceil(duration, update_interval)

(***************************************************************************)
(* SpatioTemporalFilterRetinaLGN: the configuration the model runs.        *)
(***************************************************************************)
RfTypes == {"X_ON", "X_OFF"}

\* parameters.receptive_field, and the visual space of the experiments
RetinaConfig ==
    [func |-> "ramp", width |-> 2, height |-> 1, duration |-> 4,
     spatial_resolution |-> 1, temporal_resolution |-> 2,
     update_interval |-> 4, background_luminance |-> 1]

RetinaVisualSpace ==
    [update_interval |-> RetinaConfig.update_interval,
     background_luminance |-> RetinaConfig.background_luminance]

\* the visual spaces a call can be given: the one of the experiments, and
\* one whose update interval is no multiple of the temporal resolution
VisualSpaces ==
    {RetinaVisualSpace, [RetinaVisualSpace EXCEPT !.update_interval = 3]}

\* __init__: rf_ON, rf_OFF, each quantized with dx = dy = spatial_resolution
RetinaRf(rf_type) ==
    quantize(SpatioTemporalReceptiveField(RetinaConfig.func, rf_type = "X_OFF",
                                          RetinaConfig.width, RetinaConfig.height,
                                          RetinaConfig.duration),
             RetinaConfig.spatial_resolution, RetinaConfig.spatial_resolution,
             RetinaConfig.temporal_resolution)

\* the stimuli of the experiments, by name; the duration is one of the
\* parameters a stimulus identity carries
StimulusNames == {"A", "B"}

StimulusDuration(name) == IF name = "A" THEN 18 ELSE 8

\* visual_space.view(region of the cell, pixel_size) while the frame frame_no of
\* the stimulus is shown
VisualSpaceView(name, frame_no, r, cell_index) ==
    Array([p \in 0..(r.ny * r.nx - 1) |->
        IF name = "A"
        THEN (p + frame_no + cell_index) % LuminanceLevels
        ELSE (2 * p + frame_no * cell_index + 1) % LuminanceLevels])

\* visual_space.update(): the next frame is shown, the new elapsed time returned
VisualSpaceUpdate(visual_space, t) == t + visual_space.update_interval

\* the frame kept in retinal_input: the image of the whole visual field when
\* store_stimuli is set, else None
RetinalImage(name, frame_no, store_stimuli) ==
    IF store_stimuli
    THEN [none |-> FALSE, stimulus |-> name, frame |-> frame_no]
    ELSE [none |-> TRUE, stimulus |-> "", frame |-> 0]

\* the stimulus identity with its trial number left in
KeepTrial(stimulus) == stimulus

\* MozaikParametrized.idd(stimulus); st.trial = None.  Trial 0 stands for None.
StripTrial(stimulus) == [stimulus EXCEPT !.trial = 0]

\* str(st)
Str(st) == <<st.name, st.trial>>

\* a dict: a function whose domain is the set of its keys
EmptyDict == <<>>

Put(d, k, v) == Array([x \in (DOMAIN d) \cup {k} |-> IF x = k THEN v ELSE d[x]])

Values(d) == {d[k] : k \in DOMAIN d}

SetMax(S) == CHOOSE x \in S : \A y \in S : y <= x

\* numpy.nonzero(mask)[0]
Nonzero(mask) ==
    LET S == {i \in DOMAIN mask : mask[i]}
    IN  Array([k \in 0..(Cardinality(S) - 1) |->
            CHOOSE i \in S : Cardinality({j \in S : j < i}) = k])

NoPair == [input_currents |-> Array([ty \in RfTypes |-> <<>>]), retinal_input |-> <<>>]

Append0(list, x) ==
    Array([k \in 0..Size(list) |-> IF k = Size(list) THEN x ELSE list[k]])

\* the calls made on the visual space and on the cells, in the order made:
\* `frame` is the number of visual_space.update() calls made before the call
Call(call, rf_type, k, frame) ==
    [call |-> call, rf_type |-> rf_type, cell |-> k, frame |-> frame]

\* for rf_type in self.rf_types: for cell in input_cells[rf_type]: one call each
CallsOfCells(call, input_cells, frame) ==
    [j \in 1..Size(input_cells["X_ON"]) |-> Call(call, "X_ON", j - 1, frame)]
        \o [j \in 1..Size(input_cells["X_OFF"]) |-> Call(call, "X_OFF", j - 1, frame)]

\* the frame loop with response_current() called in every round
CallsOfRoundWithResponse(input_cells, frame_no) ==
    <<Call("update", "", 0, frame_no - 1)>>
        \o CallsOfCells("view", input_cells, frame_no)
        \o CallsOfCells("response_current", input_cells, frame_no)

\* one round of the frame loop: t = visual_space.update(), then cell.view()
\* for every cell of every population
CallsOfRound(input_cells, frame_no) ==
    <<Call("update", "", 0, frame_no - 1)>>
        \o CallsOfCells("view", input_cells, frame_no)

RECURSIVE FrameLoop(_, _, _, _, _, _, _, _)
\* while t < duration: t = visual_space.update(); every cell views; the frame is kept
FrameLoop(visual_space, input_cells, indices, t, name, duration, store_stimuli, retinal_input) ==
    IF t < duration
    THEN LET frame_no == Size(retinal_input) + 1
             rest == FrameLoop(
                 visual_space,
                 Array([ty \in RfTypes |->
                     Array([k \in DOMAIN input_cells[ty] |->
                         view(input_cells[ty][k], RetinaRf(ty),
                              VisualSpaceView(name, frame_no, RetinaRf(ty),
                                              indices[ty][k]))])]),
                 indices, VisualSpaceUpdate(visual_space, t), name, duration,
                 store_stimuli,
                 Append0(retinal_input, RetinalImage(name, frame_no, store_stimuli)))
         IN  [rest EXCEPT !.calls = CallsOfRound(input_cells, frame_no) \o @]
    ELSE [input_cells |-> input_cells, retinal_input |-> retinal_input,
          calls |-> <<>>]

\* _calculate_input_currents(visual_space, duration), the visual space showing
\* the stimulus `name`: (input_currents, retinal_input), the cells as they are
\* left, and the calls made
CalculateRun(visual_space, name, duration, masks, g, store_stimuli) ==
    LET indices == Array([ty \in RfTypes |-> Nonzero(masks[ty])])
        input_cells ==
            Array([ty \in RfTypes |->
                Array([k \in DOMAIN indices[ty] |->
                    initialize(CellNew(visual_space, RetinaRf(ty)), RetinaRf(ty),
                               visual_space.background_luminance, duration)])])
        done == FrameLoop(visual_space, input_cells, indices, 0, name, duration,
                          store_stimuli, <<>>)
    IN  [input_currents |->
            Array([ty \in RfTypes |->
                Array([k \in DOMAIN done.input_cells[ty] |->
                    response_current(done.input_cells[ty][k], RetinaRf(ty), g)])]),
         retinal_input |-> done.retinal_input,
         input_cells |-> done.input_cells,
         calls |-> CallsOfCells("initialize", input_cells, 0)
                       \o done.calls
                       \o CallsOfCells("response_current", input_cells,
                                       Size(done.retinal_input))]

\* the pair (input_currents, retinal_input) that _calculate_input_currents returns
PairOf(run) ==
    [input_currents |-> run.input_currents, retinal_input |-> run.retinal_input]

CalculateInputCurrents(visual_space, name, duration, masks, g, store_stimuli) ==
    PairOf(CalculateRun(visual_space, name, duration, masks, g, store_stimuli))

(***************************************************************************)
(* The two cache tiers.                                                    *)
(***************************************************************************)
\* get_cache(stimulus_id): what it returns (hit = not None), the attribute
\* cached_stimuli it leaves, and whether it read a file of the cache
get_cache(key) ==
    IF parameters.cached = FALSE \/ mpi_size > 1
    THEN [hit |-> FALSE, value |-> NoPair, cached_stimuli |-> cached_stimuli,
          reads |-> FALSE]
    ELSE IF ~disk.index.exists
    THEN [hit |-> FALSE, value |-> NoPair,
          cached_stimuli |-> [set |-> TRUE, map |-> EmptyDict], reads |-> FALSE]
    ELSE IF key \in DOMAIN disk.index.map
    THEN [hit |-> TRUE, value |-> disk.files[disk.index.map[key]],
          cached_stimuli |-> [set |-> TRUE, map |-> disk.index.map], reads |-> TRUE]
    ELSE [hit |-> FALSE, value |-> NoPair,
          cached_stimuli |-> [set |-> TRUE, map |-> disk.index.map], reads |-> TRUE]

\* write_cache numbering a new entry max(ids) instead of max(ids) + 1
write_cache_reusing_id(key, pair, cs) ==
    IF parameters.cached = FALSE \/ ~cs.set \/ key \in DOMAIN cs.map
    THEN [error |-> IF parameters.cached /\ ~cs.set THEN "AttributeError" ELSE "none",
          cached_stimuli |-> cs, disk |-> disk, writes |-> FALSE]
    ELSE LET counter == IF Values(cs.map) = {} THEN 0 ELSE SetMax(Values(cs.map))
             map == Put(cs.map, key, counter)
         IN  [error |-> "none",
              cached_stimuli |-> [set |-> TRUE, map |-> map],
              disk |-> [index |-> [exists |-> TRUE, map |-> map],
                        files |-> Put(disk.files, counter, pair)],
              writes |-> TRUE]

\* write_cache writing the index and the data file of a known identity again
write_cache_again(key, pair, cs) ==
    IF parameters.cached = FALSE \/ ~cs.set
    THEN [error |-> IF parameters.cached THEN "AttributeError" ELSE "none",
          cached_stimuli |-> cs, disk |-> disk, writes |-> FALSE]
    ELSE LET counter == IF key \in DOMAIN cs.map THEN cs.map[key]
                        ELSE IF Values(cs.map) = {} THEN 0
                        ELSE SetMax(Values(cs.map)) + 1
             map == Put(cs.map, key, counter)
         IN  [error |-> "none",
              cached_stimuli |-> [set |-> TRUE, map |-> map],
              disk |-> [index |-> [exists |-> TRUE, map |-> map],
                        files |-> Put(disk.files, counter, pair)],
              writes |-> TRUE]

\* write_cache(stimulus_id, input_currents, retinal_input), cs being the
\* attribute cached_stimuli as get_cache left it
write_cache(key, pair, cs) ==
    IF parameters.cached = FALSE
    THEN [error |-> "none", cached_stimuli |-> cs, disk |-> disk, writes |-> FALSE]
    ELSE IF ~cs.set
    THEN \* self.cached_stimuli was never assigned
         [error |-> "AttributeError", cached_stimuli |-> cs, disk |-> disk,
          writes |-> FALSE]
    ELSE IF key \notin DOMAIN cs.map
    THEN LET counter == IF Values(cs.map) = {} THEN 0 ELSE SetMax(Values(cs.map)) + 1
             map == Put(cs.map, key, counter)
         IN  [error |-> "none",
              cached_stimuli |-> [set |-> TRUE, map |-> map],
              disk |-> [index |-> [exists |-> TRUE, map |-> map],
                        files |-> Put(disk.files, counter, pair)],
              writes |-> TRUE]
    ELSE [error |-> "none", cached_stimuli |-> cs, disk |-> disk, writes |-> FALSE]

\* process_input: where the currents come from
SelectSource(disk_hit, in_run) ==
    IF disk_hit THEN "disk" ELSE IF in_run THEN "inrun" ELSE "calc"

(***************************************************************************)
(* Injection.                                                              *)
(***************************************************************************)
InjectionStride == 8

\* a[::stride]
Subsample(a, stride) ==
    Array([m \in 0..(Ceil(Size(a), stride) - 1) |-> a[m * stride]])

\* t = input_current['times'] + offset; a = linear_scaler * input_current['amplitudes'];
\* StepCurrentSource(times=t[::8], amplitudes=a[::8])
StepCurrent(input_current, offset) ==
    [times |-> Subsample(Array([j \in DOMAIN input_current.times |->
                                    input_current.times[j] + offset]), InjectionStride),
     amplitudes |-> Subsample(Array([j \in DOMAIN input_current.amplitudes |->
                                        parameters.linear_scaler
                                            * input_current.amplitudes[j]]),
                              InjectionStride)]

\* the injection loop pairing the traces with the cells 0, 1, ... of the
\* whole population
InjectInPopulationOrder(input_currents, offset) ==
    Array([ty \in RfTypes |->
        Array([i \in 0..(Min(NCells, Size(input_currents[ty])) - 1) |->
            StepCurrent(input_currents[ty][i], offset)])])

\* for (lgn_cell, input_current) in zip(pop, input_currents[rf_type]): the
\* population iterates over its local cells
Inject(input_currents, offset) ==
    Array([ty \in RfTypes |->
        LET local == Nonzero(mask_local[ty])
            n == Min(Size(local), Size(input_currents[ty]))
        IN  Array([i \in {local[k] : k \in 0..(n - 1)} |->
                StepCurrent(input_currents[ty][CHOOSE k \in 0..(n - 1) : local[k] = i],
                            offset)])])

\* the injection loop scaling the amplitudes of the pair in place
ScaledInPlace(pair) ==
    [pair EXCEPT !.input_currents =
        Array([ty \in RfTypes |->
            Array([k \in DOMAIN pair.input_currents[ty] |->
                [pair.input_currents[ty][k] EXCEPT !.amplitudes =
                    Array([j \in DOMAIN @ |-> parameters.linear_scaler * @[j]])]])])]

\* the pair (input_currents, retinal_input) as the injection loop leaves it:
\* the loop works on new arrays
AfterInjection(pair) == pair

\* the amplitude without the linear scaler
NullAmplitudeUnscaled(rf_type) ==
    parameters.gain * KernelSum(RetinaRf(rf_type))
        * RetinaVisualSpace.background_luminance

\* provide_null_input: the amplitude of a population on the linear path
NullAmplitude(rf_type) ==
    parameters.linear_scaler * parameters.gain * KernelSum(RetinaRf(rf_type))
        * RetinaVisualSpace.background_luminance

(***************************************************************************)
(* One run of the retina model in one process.                             *)
(***************************************************************************)
EmptyDisk == [index |-> [exists |-> FALSE, map |-> EmptyDict], files |-> EmptyDict]

AllLocal == [ty \in RfTypes |-> [i \in 0..(NCells - 1) |-> TRUE]]

\* the cache directory as an earlier single-process run left it, having shown
\* stimulus A to a retina whose gain was different
PriorRunDisk ==
    [index |-> [exists |-> TRUE, map |-> Put(EmptyDict, <<"A", 0>>, 0)],
     files |-> Put(EmptyDict, 0,
                   CalculateInputCurrents(RetinaVisualSpace, "A",
                                          StimulusDuration("A"), AllLocal, 1,
                                          FALSE))]

NoInjection == Array([ty \in RfTypes |-> <<>>])

NoCall ==
    [op |-> "none", key |-> <<"", 0>>, visual_space |-> RetinaVisualSpace,
     offset |-> 0, source |-> "none",
     error |-> "none", used |-> NoPair, injected |-> NoInjection,
     reads |-> FALSE, writes |-> FALSE, updates |-> 0, duration |-> 0,
     calls |-> <<>>]

RetinaIdle ==
    /\ parameters = [cached |-> FALSE, linear_scaler |-> 1, gain |-> 1,
                     store_stimuli |-> FALSE]
    /\ mpi_size = 1
    /\ mask_local = AllLocal
    /\ disk = EmptyDisk
    /\ cached_stimuli = [set |-> FALSE, map |-> EmptyDict]
    /\ internal_stimulus_cache = EmptyDict
    /\ retina_pc = "idle"
    /\ last = NoCall
    /\ calculated = [name \in StimulusNames |-> 0]
    /\ ncalls = 0

\* SpatioTemporalFilterRetinaLGN.__init__ has quantized rf_ON and rf_OFF; the
\* visual space is only given to the calls
RetinaInit ==
    /\ \E c \in BOOLEAN, s \in BOOLEAN :
          parameters = [cached |-> c, linear_scaler |-> 3, gain |-> 2,
                        store_stimuli |-> s]
    /\ mpi_size \in MpiSizes
    /\ mask_local \in [RfTypes -> [0..(NCells - 1) -> BOOLEAN]]
    /\ mpi_size = 1 => mask_local = AllLocal
    /\ mpi_size > 1 => \A ty \in RfTypes : mask_local[ty] = mask_local["X_ON"]
    /\ disk \in {EmptyDisk, PriorRunDisk}
    /\ cached_stimuli = [set |-> FALSE, map |-> EmptyDict]
    /\ internal_stimulus_cache = EmptyDict
    /\ retina_pc = "running"
    /\ last = NoCall
    /\ calculated = [name \in StimulusNames |-> 0]
    /\ ncalls = 0

\* no cell is constructed though the check of its constructor fails
CellsNeverRaise(visual_space, masks) == FALSE

\* _calculate_input_currents: a CellWithReceptiveField is constructed for
\* every local index, and its constructor raises
CellsRaise(visual_space, masks) ==
    \E ty \in RfTypes :
       /\ Size(Nonzero(masks[ty])) > 0
       /\ ~CellConfigOk(visual_space, RetinaRf(ty))

\* process_input(visual_space, stimulus, duration, offset)
ProcessInput ==
    /\ retina_pc = "running"
    /\ ncalls < MaxCalls
    /\ \E visual_space \in VisualSpaces, name \in StimulusNames,
          trial \in Trials, offset \in Offsets :
          LET stimulus == [name |-> name, trial |-> trial]
              duration == StimulusDuration(name)
              key == Str(StripTrial(stimulus))
              cached == get_cache(key)
              source == SelectSource(cached.hit, key \in DOMAIN internal_stimulus_cache)
          IN  IF source = "calc" /\ CellsRaise(visual_space, mask_local)
              THEN \* the Exception of CellWithReceptiveField.__init__ ends the call
                   /\ cached_stimuli' = cached.cached_stimuli
                   /\ UNCHANGED <<disk, internal_stimulus_cache>>
                   /\ retina_pc' = "crashed"
                   /\ last' = [NoCall EXCEPT
                                  !.op = "process_input", !.key = key,
                                  !.visual_space = visual_space,
                                  !.offset = offset, !.source = source,
                                  !.error = "Exception", !.reads = cached.reads,
                                  !.duration = duration]
                   /\ calculated' = [calculated EXCEPT ![name] = @ + 1]
              ELSE
              \E run \in {IF source = "calc"
                           THEN CalculateRun(visual_space, name, duration,
                                             mask_local, parameters.gain,
                                             parameters.store_stimuli)
                           ELSE [calls |-> <<>>]} :
              \E pair \in {CASE source = "disk" -> cached.value
                             [] source = "inrun" -> internal_stimulus_cache[key]
                             [] source = "calc" -> PairOf(run)} :
              \E kept \in {AfterInjection(pair)} :
              \E written \in {write_cache(key, kept, cached.cached_stimuli)} :
                 /\ cached_stimuli' = written.cached_stimuli
                 /\ disk' = written.disk
                 /\ IF written.error = "none"
                    THEN /\ internal_stimulus_cache' =
                                Put(internal_stimulus_cache, key, kept)
                         /\ retina_pc' = "running"
                    ELSE /\ internal_stimulus_cache' = internal_stimulus_cache
                         /\ retina_pc' = "crashed"
                 /\ last' = [op |-> "process_input", key |-> key,
                             visual_space |-> visual_space, offset |-> offset,
                             source |-> source, error |-> written.error, used |-> pair,
                             injected |-> Inject(pair.input_currents, offset),
                             reads |-> cached.reads, writes |-> written.writes,
                             updates |-> IF source = "calc"
                                         THEN Size(pair.retinal_input) ELSE 0,
                             duration |-> duration, calls |-> run.calls]
                 /\ calculated' = IF source = "calc"
                                  THEN [calculated EXCEPT ![name] = @ + 1]
                                  ELSE calculated
    /\ ncalls' = ncalls + 1
    /\ UNCHANGED <<parameters, mpi_size, mask_local>>
    /\ UNCHANGED <<cellvars, connvars, ctlvars, storevars>>

\* provide_null_input(visual_space, duration, offset)
ProvideNullInput ==
    /\ retina_pc = "running"
    /\ ncalls < MaxCalls
    /\ \E visual_space \in VisualSpaces, name \in StimulusNames,
          offset \in Offsets :
          LET duration == StimulusDuration(name)
              times == Array([j \in 0..1 |->
                           IF j = 0 THEN offset
                           ELSE duration - visual_space.update_interval + offset])
          IN  \* one CellWithReceptiveField is constructed for each population
              IF \E ty \in RfTypes : ~CellConfigOk(visual_space, RetinaRf(ty))
              THEN /\ last' = [NoCall EXCEPT !.op = "provide_null_input",
                                             !.visual_space = visual_space,
                                             !.offset = offset,
                                             !.duration = duration,
                                             !.error = "Exception"]
                   /\ retina_pc' = "crashed"
              ELSE /\ last' = [NoCall EXCEPT
                          !.op = "provide_null_input",
                          !.visual_space = visual_space,
                          !.offset = offset,
                          !.duration = duration,
                          !.calls = <<Call("initialize", "X_ON", 0, 0),
                                      Call("initialize", "X_OFF", 0, 0)>>,
                          !.injected =
                              [ty \in RfTypes |->
                                  [i \in 0..(NCells - 1) |->
                                      [times |-> times,
                                       amplitudes |->
                                           [j \in 0..1 |-> 0 * times[j]
                                                           + NullAmplitude(ty)]]]]]
                   /\ retina_pc' = retina_pc
    /\ ncalls' = ncalls + 1
    /\ UNCHANGED <<parameters, mpi_size, mask_local, disk, cached_stimuli,
                   internal_stimulus_cache, calculated>>
    /\ UNCHANGED <<cellvars, connvars, ctlvars, storevars>>

RetinaNext == ProcessInput \/ ProvideNullInput

(***************************************************************************)
(* The connectors of the ModularConnector family (connectors/modular.py).  *)
(* Delays and time steps are in hundredths of a millisecond, annotation    *)
(* values in tenths.                                                       *)
(***************************************************************************)
MaxSamples == 3     \* num_samples, and a draw of it, is 0..MaxSamples
NTargets == 2       \* target.pop.size

SourceSizes == {1, 2}               \* source.pop.size
TimeSteps == {10, 50, 100}          \* sim.get_time_step(): 0.1, 0.5, 1.0 ms
ComputedDelays == {0, 14, 15, 25, 75, 1425, 1434, 1440, 1444, 1445, 1446,
                   1450, 1451, 1475, 1500}  \* values of the delay expression
DelayVectorSizes == {1, 2}          \* source.pop.size where delays are studied
Annotations == {5, 15, 25}          \* get_neuron_annotation(): 0.5, 1.5, 2.5
WeightNames == {"f1", "f2"}         \* names a weight expression may use
DelayNames == {"d1", "d2"}          \* names a delay expression may use
ComponentKinds == {"ModularConnectorFunction", "other"}

\* the delay ceiling of _obtain_delays: 14.4 ms
MaxDelay == 1440

Range(s) == {s[j] : j \in DOMAIN s}

\* ---- ast.parse(expression): a Name, a Num or a BinOp of two of them
Name(id) == [node |-> "Name", id |-> id]

Num == [node |-> "Num"]

BinOp(left, right) == [node |-> "BinOp", left |-> left, right |-> right]

Expressions(ids) ==
    LET leaves == {Name(id) : id \in ids} \cup {Num}
    IN  leaves \cup {BinOp(l, r) : l \in leaves, r \in leaves}

RECURSIVE visit(_, _)
\* NodeVisitor.visit: visit_Name on a Name, generic_visit on any other node
visit(node, names) ==
    IF node.node = "Name"
    THEN IF node.id \in Range(names) THEN names ELSE Append(names, node.id)
    ELSE IF node.node = "BinOp"
    THEN visit(node.right, visit(node.left, names))
    ELSE names

\* v = ExpVisitor(); v.visit(ast.parse(expression)); v.names
ExpVisitor(tree) == visit(tree, <<>>)

\* a ParameterSet of function components: name -> the kind of object its
\* component builds
Configs(ids) == UNION {[S -> ComponentKinds] : S \in SUBSET ids}

RECURSIVE LoadFunctionsIgnoringUnknown(_, _, _, _, _)
\* the loop skipping a name that has no configured component
LoadFunctionsIgnoringUnknown(names, n, configured, asserted, functions) ==
    IF n > Len(names)
    THEN [error |-> "none", functions |-> functions]
    ELSE IF names[n] \notin DOMAIN configured
    THEN LoadFunctionsIgnoringUnknown(names, n + 1, configured, asserted, functions)
    ELSE IF asserted /\ configured[names[n]] # "ModularConnectorFunction"
    THEN [error |-> "AssertionError",
          functions |-> Put(functions, names[n], configured[names[n]])]
    ELSE LoadFunctionsIgnoringUnknown(names, n + 1, configured, asserted,
                                      Put(functions, names[n], configured[names[n]]))

RECURSIVE LoadFunctions(_, _, _, _, _)
\* for k in names: functions[k] = load_component(configured[k].component)(...)
\* from names[n] on; asserted: the isinstance assertion of the weight loop
LoadFunctions(names, n, configured, asserted, functions) ==
    IF n > Len(names)
    THEN [error |-> "none", functions |-> functions]
    ELSE IF names[n] \notin DOMAIN configured
    THEN [error |-> "KeyError", functions |-> functions]
    ELSE IF asserted /\ configured[names[n]] # "ModularConnectorFunction"
    THEN [error |-> "AssertionError",
          functions |-> Put(functions, names[n], configured[names[n]])]
    ELSE LoadFunctions(names, n + 1, configured, asserted,
                       Put(functions, names[n], configured[names[n]]))

NoLog == [error |-> "none", warnings |-> {}]

ConnIdle ==
    /\ conn_pc = "idle"
    /\ conn_params = <<>>
    /\ conn_self = <<>>
    /\ conn_log = NoLog

ConstructInit ==
    /\ conn_pc = "new"
    /\ conn_params \in [weight_expression : Expressions(WeightNames),
                        delay_expression : Expressions(DelayNames),
                        weight_functions : Configs(WeightNames),
                        delay_functions : Configs(DelayNames)]
    /\ conn_self = <<>>
    /\ conn_log = NoLog

\* ModularConnector.__init__
Construct ==
    /\ conn_pc = "new"
    /\ LET weight_function_names == ExpVisitor(conn_params.weight_expression)
           delay_function_names == ExpVisitor(conn_params.delay_expression)
           w == LoadFunctions(weight_function_names, 1,
                              conn_params.weight_functions, TRUE, EmptyDict)
           d == IF w.error = "none"
                THEN LoadFunctions(delay_function_names, 1,
                                   conn_params.delay_functions, FALSE, EmptyDict)
                ELSE [error |-> w.error, functions |-> EmptyDict]
       IN  /\ conn_self' = [weight_function_names |-> weight_function_names,
                            delay_function_names |-> delay_function_names,
                            weight_functions |-> w.functions,
                            delay_functions |-> d.functions]
           /\ conn_log' = [error |-> d.error, warnings |-> {}]
           /\ conn_pc' = IF d.error = "none" THEN "constructed"
                         ELSE "construct_failed"
    /\ UNCHANGED conn_params
    /\ UNCHANGED <<cellvars, retinavars, ctlvars, storevars>>

ConstructNext == Construct

\* ---- _obtain_delays
\* rounding a half up instead of to the even integer
rint_half_up(n, d) == (2 * n + d) \div (2 * d)

\* numpy.rint(n / d) for n >= 0, d > 0: the nearest integer, a half going to
\* the even one
rint(n, d) ==
    LET q == n \div d
        r == n % d
    IN  IF 2 * r < d THEN q
        ELSE IF 2 * r > d THEN q + 1
        ELSE IF q % 2 = 0 THEN q ELSE q + 1

\* _obtain_delays(i), computed being numpy.zeros(source size) + the value of
\* the delay expression
obtain_delays(simulator_time_step, computed) ==
    Array([k \in DOMAIN computed |->
        LET d == rint(computed[k], simulator_time_step) * simulator_time_step
        IN  IF d > MaxDelay THEN MaxDelay ELSE d])

DelayInit ==
    /\ conn_pc = "constructed"
    /\ \E n \in DelayVectorSizes, step \in TimeSteps :
       \E computed \in [0..(n - 1) -> ComputedDelays] :
          /\ conn_params = [source_size |-> n, computed |-> computed]
          /\ conn_self = [simulator_time_step |-> step, delays |-> <<>>]
    /\ conn_log = NoLog

ObtainDelays ==
    /\ conn_pc = "constructed"
    /\ conn_self' = [conn_self EXCEPT
            !.delays = obtain_delays(conn_self.simulator_time_step,
                                     conn_params.computed)]
    /\ conn_pc' = "delays_obtained"
    /\ UNCHANGED <<conn_params, conn_log>>
    /\ UNCHANGED <<cellvars, retinavars, ctlvars, storevars>>

DelayNext == ObtainDelays

\* ---- _connect
Variants == {"ModularConnector",
             "ModularSamplingProbabilisticConnector",
             "ModularSingleWeightProbabilisticConnector",
             "ModularSamplingProbabilisticConnectorAnnotationSamplesCount",
             "SpecificArborization",
             "SpecificProbabilisticArborization"}

EmptyProjectionWarning == "empty projection - pyNN projection not created."

ConnectionsCreatedWarning == "connections were created"

\* parameters.short_term_plasticity: None, or a ParameterSet
ShortTermPlasticity == {"None", "configured"}

\* the values a base_weight distribution draws from: a constant one, and one
\* of two values
BaseWeights == {{2}, {2, 3}}

\* numpy.random.rand(): numbers of [0, 1), in hundredths
RandDraws == {0, 50, 99}

\* a connector whose weights get no unit factor
NoWeightScaler(short_term_plasticity) == 1

\* Connector.__init__: the unit factor of the weights
WeightScaler(short_term_plasticity) ==
    IF short_term_plasticity # "None" THEN 1000 ELSE 1

\* int(x) of a number x >= 0 held in tenths
int(samples) == samples \div 10

\* sample_from_bin_distribution(bins, number_of_samples), as the Counters of
\* the lists it can return: how often each bin was drawn
sample_from_bin_distribution(len_bins, number_of_samples) ==
    IF len_bins = 0
    THEN {Zeros(0)}
    ELSE {Array(co) : co \in {c \in [0..(len_bins - 1) -> 0..number_of_samples] :
                                 Sum(c) = number_of_samples}}

RECURSIVE Products(_, _)
\* the lists of n draws, the j-th one of sets[j]: what the loop can draw
Products(sets, n) ==
    IF n = 0 THEN {Zeros(0)}
    ELSE {Append0(a, c) : a \in Products(sets, n - 1), c \in sets[n - 1]}

\* list(co.keys())
Keys(co) == {k \in DOMAIN co : co[k] > 0}

\* what the loop body draws for one target: the Counter of the samples and
\* base_weight.next(len(k)), one base weight for each key
SampledTargets(len_bins, number_of_samples, base_weight) ==
    UNION {{[co |-> co, base |-> base] : base \in [Keys(co) -> base_weight]} :
              co \in sample_from_bin_distribution(len_bins, number_of_samples)}

\* the weights without the multiplicity of a source in the sample
SampledConnectionsPerSource(i, co, base, delays, weight_scaler) ==
    {<<k, i, weight_scaler * base[k], delays[k]>> : k \in Keys(co)}

\* the array of one target: a column (source, target, weight, delay) for each
\* key of the Counter, the weight being
\* weight_scaler * numpy.multiply(base_weight.next(len(k)), list(co.values()))
SampledConnections(i, co, base, delays, weight_scaler) ==
    {<<k, i, weight_scaler * (base[k] * co[k]), delays[k]>> : k \in Keys(co)}

\* the samples drawn for a target of annotation `samples` without the
\* doubling of int(samples)
SampleCountUndoubled(num_samples, samples) ==
    IF num_samples = 0
    THEN [ok |-> TRUE, number_of_samples |-> int(samples)]
    ELSE IF num_samples > int(samples)
    THEN [ok |-> TRUE, number_of_samples |-> num_samples - int(samples)]
    ELSE [ok |-> FALSE, number_of_samples |-> 0]

\* AnnotationSamplesCount._connect: the number of samples drawn for a target
\* of annotation `samples`; ok is the assertion
SampleCount(num_samples, samples) ==
    IF num_samples = 0
    THEN [ok |-> TRUE, number_of_samples |-> int(samples)]
    ELSE IF num_samples > 2 * int(samples)
    THEN [ok |-> TRUE, number_of_samples |-> num_samples - 2 * int(samples)]
    ELSE [ok |-> FALSE, number_of_samples |-> 0]

\* a source whose probability merely reaches the number drawn is connected
ExceedsOrEquals(weights, connection_probability, k, rand) ==
    /\ Sum(weights) # 0
    /\ weights[k] * connection_probability * Size(weights) >= rand * Sum(weights)

\* conections_probabilities[k] > numpy.random.rand(...)[k], where
\* conections_probabilities = weights / sum(weights) * connection_probability
\* * len(weights); with sum(weights) = 0 the probabilities are nan, and no
\* comparison with nan is true (both sides are in hundredths here)
Exceeds(weights, connection_probability, k, rand) ==
    /\ Sum(weights) # 0
    /\ weights[k] * connection_probability * Size(weights) > rand * Sum(weights)

\* numpy.flatnonzero(conections_probabilities > numpy.random.rand(len(...)))
connection_indices(weights, connection_probability, rand) ==
    {k \in DOMAIN weights : Exceeds(weights, connection_probability, k, rand[k])}

\* what the loop body of the single weight connector draws for one target:
\* the uniform numbers, and base_weight.next() for each source connected
SingleWeightTargets(weights, connection_probability, base_weight) ==
    UNION {{[rand |-> rand, base |-> base] :
               base \in [connection_indices(weights, connection_probability, rand)
                            -> base_weight]} :
              rand \in [DOMAIN weights -> RandDraws]}

\* numpy.hstack(cl).T: the rows of all the arrays; ValueError for no array
hstack(arrays) ==
    IF Size(arrays) = 0
    THEN [error |-> "ValueError", cl |-> {}]
    ELSE [error |-> "none", cl |-> UNION Range(arrays)]

\* self._obtain_delays(i): the delay expression gives params.delay for every
\* source
DelaysOf(params) ==
    obtain_delays(params.time_step,
                  Array([k \in 0..(params.source_size - 1) |-> params.delay]))

\* what _connect leaves: the list realized, whether FromListConnector and
\* Projection were called, and the targets processed; weight_scaler and
\* connection_matrix are the attributes __init__ has set
Left(cl, method, proj, processed) ==
    [cl |-> cl, method |-> method, proj |-> proj, processed |-> processed,
     weight_scaler |-> conn_self.weight_scaler,
     connection_matrix |-> conn_self.connection_matrix]

RECURSIVE gcd(_, _)
gcd(a, b) == IF b = 0 THEN a ELSE gcd(b, a % b)

\* a float that is a quotient of integers (in lowest terms), or nan
Number(num, den) ==
    [nan |-> FALSE, num |-> num \div gcd(num, den), den |-> den \div gcd(num, den)]

NaN == [nan |-> TRUE, num |-> 0, den |-> 1]

\* a / b of numpy for a >= 0 and b >= 0 that are not both 0; 0 / 0 is nan
Divide(a, b) == IF b = 0 THEN NaN ELSE Number(a, b)

\* x * factor
Times(x, factor) == IF x.nan THEN NaN ELSE Number(x.num * factor, x.den)

\* c > z / 100.0; no comparison with nan is true
ExceedsHundredth(c, z) ==
    /\ ~c.nan
    /\ ~z.nan
    /\ c.num * z.den * 100 > z.num * c.den

\* connection_matrix[:, i]
Column(matrix, i) == Array([k \in DOMAIN matrix |-> matrix[k][i]])

\* every column divided by the sum of the whole matrix
normalize_by_total(matrix, weight_factor) ==
    Array([k \in DOMAIN matrix |-> Array([i \in DOMAIN matrix[k] |->
        Times(Divide(matrix[k][i],
                     Sum(Array([j \in DOMAIN matrix[k] |-> Sum(Column(matrix, j))]))),
              weight_factor)])])

\* for i in range(0, target.pop.size): connection_matrix[:, i] =
\* connection_matrix[:, i] / np.sum(connection_matrix[:, i]) * weight_factor
normalize(matrix, weight_factor) ==
    Array([k \in DOMAIN matrix |-> Array([i \in DOMAIN matrix[k] |->
        Times(Divide(matrix[k][i], Sum(Column(matrix, i))), weight_factor)])])

\* np.max: nan as soon as one entry is nan
np_max(entries) ==
    IF \E x \in entries : x.nan
    THEN NaN
    ELSE CHOOSE x \in entries : \A y \in entries : x.num * y.den >= y.num * x.den

\* the end of _connect of the three probabilistic connectors
ProjectionOrWarning(cl, warnings) ==
    IF Cardinality(cl) > 0
    THEN [proj |-> TRUE, warnings |-> warnings]
    ELSE [proj |-> FALSE, warnings |-> warnings \cup {EmptyProjectionWarning}]

NoAnnotation == [i \in 0..(NTargets - 1) |-> 5]

\* the numbers num_samples.next() can give, in tenths
NumSamplesDraws == {10 * n : n \in 0..MaxSamples} \cup {25}

\* the parameters of each connector; the connectors that do not read a
\* parameter get one value of it.  The weight expression gives 0, 1 or 3 for
\* a source, a connection_matrix has entries 0, 1 and 99,
\* connection_probability is in hundredths
VariantParameters(variant, source_size) ==
    LET ones == {Array([k \in 0..(source_size - 1) |-> 1])}
        none == {0}
        matrices == [0..(source_size - 1) -> [0..(NTargets - 1) -> {0, 1, 99}]]
        modular == [weights : ones, delay : {1446}, base_weight : {{2}},
                    num_samples : none, connection_probability : none,
                    annotation : {NoAnnotation}, connection_matrix : {<<>>},
                    weight_factor : none]
        Of(variables) ==
            {[f \in DOMAIN q |-> IF f \in DOMAIN v THEN v[f] ELSE q[f]] :
                q \in modular, v \in variables}
    IN  CASE variant = "ModularConnector" ->
               Of([weights : [0..(source_size - 1) -> {1, 3}],
                   delay : {25, 1446}, base_weight : {{}}])
          [] variant = "ModularSamplingProbabilisticConnector" ->
               Of([base_weight : BaseWeights, num_samples : {NumSamplesDraws}])
          [] variant = "ModularSingleWeightProbabilisticConnector" ->
               Of([weights : [0..(source_size - 1) -> {0, 1, 3}],
                   connection_probability : {50, 100}])
          [] variant = "ModularSamplingProbabilisticConnectorAnnotationSamplesCount" ->
               Of([num_samples : 0..MaxSamples,
                   annotation : [0..(NTargets - 1) -> Annotations]])
          [] variant = "SpecificArborization" ->
               Of([connection_matrix : matrices, weight_factor : {1, 3},
                   delay : {25}])
          [] variant = "SpecificProbabilisticArborization" ->
               Of([connection_matrix : {[k \in 0..(source_size - 1) |->
                                           [i \in 0..(NTargets - 1) |-> 1]]},
                   weight_factor : {1, 3}, num_samples : 0..MaxSamples,
                   delay : {25}])

ConnectInit ==
    /\ conn_pc = "constructed"
    /\ \E variant \in Variants, source_size \in SourceSizes,
          mask \in [0..(NTargets - 1) -> BOOLEAN],
          short_term_plasticity \in ShortTermPlasticity :
       \E p \in VariantParameters(variant, source_size) :
          \* the two arborizations do not read _mask_local
          /\ variant \in {"SpecificArborization",
                          "SpecificProbabilisticArborization"}
                => mask = [i \in 0..(NTargets - 1) |-> TRUE]
          /\ conn_params = [variant |-> variant, source_size |-> source_size,
                            mask_local |-> mask, time_step |-> 10,
                            delay |-> p.delay,
                            short_term_plasticity |-> short_term_plasticity,
                            weights |-> Array(p.weights),
                            base_weight |-> p.base_weight,
                            connection_probability |-> p.connection_probability,
                            num_samples |-> p.num_samples,
                            annotation |-> p.annotation,
                            connection_matrix |-> p.connection_matrix,
                            weight_factor |-> p.weight_factor]
          /\ conn_self = [cl |-> {}, method |-> FALSE, proj |-> FALSE,
                          processed |-> <<>>,
                          weight_scaler |-> WeightScaler(short_term_plasticity),
                          connection_matrix |->
                              Array([k \in DOMAIN p.connection_matrix |->
                                        Array(p.connection_matrix[k])])]
    /\ conn_log = NoLog

\* ModularConnector._connect
ConnectModularConnector ==
    /\ conn_pc = "constructed"
    /\ conn_params.variant = "ModularConnector"
    /\ LET indices == Nonzero(conn_params.mask_local)
           delays == DelaysOf(conn_params)
           \* zip() stops at its shortest argument; z + i has target.pop.size entries
           zipped == Min(conn_params.source_size, NTargets)
           connection_list ==
               {<<k, indices[j], conn_self.weight_scaler * conn_params.weights[k],
                  delays[k]>> : k \in 0..(zipped - 1), j \in DOMAIN indices}
       IN  /\ conn_self' = Left(connection_list, TRUE, TRUE, <<>>)
           /\ conn_log' = NoLog
           /\ conn_pc' = "connected"
    /\ UNCHANGED conn_params
    /\ UNCHANGED <<cellvars, retinavars, ctlvars, storevars>>

\* ModularSamplingProbabilisticConnector._connect
ConnectSampling ==
    /\ conn_pc = "constructed"
    /\ conn_params.variant = "ModularSamplingProbabilisticConnector"
    /\ LET indices == Nonzero(conn_params.mask_local)
           delays == DelaysOf(conn_params)
           \* int(self.parameters.num_samples.next()), drawn for each target
           drawn == UNION {{[num_samples |-> x, co |-> t.co, base |-> t.base] :
                               t \in SampledTargets(Size(conn_params.weights),
                                                    int(x),
                                                    conn_params.base_weight)} :
                              x \in conn_params.num_samples}
       IN  \E draws \in [DOMAIN indices -> drawn] :
           \E stacked \in {hstack(Array([j \in DOMAIN indices |->
                              SampledConnections(indices[j], draws[j].co,
                                                 draws[j].base, delays,
                                                 conn_self.weight_scaler)]))} :
              LET processed == Array([j \in DOMAIN indices |->
                                  [target |-> indices[j],
                                   num_samples |-> draws[j].num_samples,
                                   co |-> draws[j].co,
                                   base |-> draws[j].base]])
              IN  IF stacked.error # "none"
                  THEN /\ conn_self' = Left({}, FALSE, FALSE, processed)
                       /\ conn_log' = [error |-> stacked.error, warnings |-> {}]
                       /\ conn_pc' = "connect_failed"
                  ELSE LET tail == ProjectionOrWarning(stacked.cl,
                                                      {ConnectionsCreatedWarning})
                       IN  /\ conn_self' = Left(stacked.cl, TRUE, tail.proj,
                                                processed)
                           /\ conn_log' = [error |-> "none",
                                           warnings |-> tail.warnings]
                           /\ conn_pc' = "connected"
    /\ UNCHANGED conn_params
    /\ UNCHANGED <<cellvars, retinavars, ctlvars, storevars>>

\* ModularSingleWeightProbabilisticConnector._connect
ConnectSingleWeight ==
    /\ conn_pc = "constructed"
    /\ conn_params.variant = "ModularSingleWeightProbabilisticConnector"
    /\ LET indices == Nonzero(conn_params.mask_local)
           delays == DelaysOf(conn_params)
           weights == conn_params.weights
           p == conn_params.connection_probability
       IN  \E draws \in [DOMAIN indices ->
                            SingleWeightTargets(weights, p,
                                                conn_params.base_weight)] :
              LET cl == UNION {{<<k, indices[j],
                                  conn_self.weight_scaler * draws[j].base[k],
                                  delays[k]>> :
                                   k \in connection_indices(weights, p,
                                                            draws[j].rand)} :
                                  j \in DOMAIN indices}
                  processed == Array([j \in DOMAIN indices |->
                                  [target |-> indices[j], rand |-> draws[j].rand,
                                   base |-> draws[j].base]])
              IN  IF Size(indices) = 0
                  THEN \* conections_probabilities was never assigned
                       /\ conn_self' = Left(cl, TRUE, FALSE, processed)
                       /\ conn_log' = [error |-> "UnboundLocalError", warnings |-> {}]
                       /\ conn_pc' = "connect_failed"
                  ELSE LET tail == ProjectionOrWarning(cl, {"connections"})
                       IN  /\ conn_self' = Left(cl, TRUE, tail.proj, processed)
                           /\ conn_log' = [error |-> "none",
                                           warnings |-> tail.warnings]
                           /\ conn_pc' = "connected"
    /\ UNCHANGED conn_params
    /\ UNCHANGED <<cellvars, retinavars, ctlvars, storevars>>

\* ModularSamplingProbabilisticConnectorAnnotationSamplesCount._connect
ConnectAnnotationSamplesCount ==
    /\ conn_pc = "constructed"
    /\ conn_params.variant =
          "ModularSamplingProbabilisticConnectorAnnotationSamplesCount"
    /\ LET indices == Nonzero(conn_params.mask_local)
           delays == DelaysOf(conn_params)
           count == Array([j \in DOMAIN indices |->
                       SampleCount(conn_params.num_samples,
                                   conn_params.annotation[indices[j]])])
           failing == {j \in DOMAIN indices : ~count[j].ok}
           \* the loop ends at the first target whose assertion fails
           done == IF failing = {} THEN Size(indices)
                   ELSE CHOOSE j \in failing : \A x \in failing : j <= x
       IN  \E draws \in Products(
                 Array([j \in 0..(done - 1) |->
                     SampledTargets(Size(conn_params.weights),
                                    count[j].number_of_samples,
                                    conn_params.base_weight)]),
                 done) :
              LET arrays == Array([j \in 0..(done - 1) |->
                               SampledConnections(indices[j], draws[j].co,
                                                  draws[j].base, delays,
                                                  conn_self.weight_scaler)])
                  processed == Array([j \in 0..(done - 1) |->
                                  [target |-> indices[j],
                                   number_of_samples |-> count[j].number_of_samples,
                                   drawn |-> Sum(draws[j].co),
                                   co |-> draws[j].co,
                                   base |-> draws[j].base]])
                  stacked == hstack(arrays)
              IN  IF failing # {}
                  THEN /\ conn_self' = Left(UNION Range(arrays), FALSE, FALSE,
                                            processed)
                       /\ conn_log' = [error |-> "AssertionError", warnings |-> {}]
                       /\ conn_pc' = "connect_failed"
                  ELSE IF stacked.error # "none"
                  THEN /\ conn_self' = Left({}, FALSE, FALSE, processed)
                       /\ conn_log' = [error |-> stacked.error, warnings |-> {}]
                       /\ conn_pc' = "connect_failed"
                  ELSE LET tail == ProjectionOrWarning(stacked.cl,
                                                      {ConnectionsCreatedWarning})
                       IN  /\ conn_self' = Left(stacked.cl, TRUE, tail.proj,
                                                processed)
                           /\ conn_log' = [error |-> "none",
                                           warnings |-> tail.warnings]
                           /\ conn_pc' = "connected"
    /\ UNCHANGED conn_params
    /\ UNCHANGED <<cellvars, retinavars, ctlvars, storevars>>

\* SpecificArborization._connect
ConnectSpecificArborization ==
    /\ conn_pc = "constructed"
    /\ conn_params.variant = "SpecificArborization"
    /\ \E normalized \in {normalize(conn_self.connection_matrix,
                                     conn_params.weight_factor)} :
       \* self.connection_matrix = self.connection_matrix * self.weight_scaler
       \E connection_matrix \in
             {Array([k \in DOMAIN normalized |->
                 Array([i \in DOMAIN normalized[k] |->
                     Times(normalized[k][i], conn_self.weight_scaler)])])} :
       \E z \in {np_max({connection_matrix[k][i] :
                            k \in DOMAIN connection_matrix,
                            i \in 0..(NTargets - 1)})} :
          LET \* get rid of very weak synapses
              connection_list ==
                  {<<k, i, connection_matrix[k][i], conn_params.delay>> :
                      k \in DOMAIN connection_matrix, i \in 0..(NTargets - 1)}
              kept == {e \in connection_list : ExceedsHundredth(e[3], z)}
          IN  /\ conn_self' = [Left(kept, TRUE, TRUE, <<>>) EXCEPT
                                  !.connection_matrix = connection_matrix]
              /\ conn_log' = NoLog
              /\ conn_pc' = "connected"
    /\ UNCHANGED conn_params
    /\ UNCHANGED <<cellvars, retinavars, ctlvars, storevars>>

\* every sampled connection with the base weight wf / num_samples, whatever
\* the number of times its source was drawn
ArborizedConnectionsUncounted(i, co, wf, num_samples, delay) ==
    {<<k, i, Divide(wf, num_samples), delay>> : k \in Keys(co)}

\* the tuples of one target: (int(k), int(i), wf * co[k] / num_samples,
\* delays[k][i]) for k in list(co.keys())
ArborizedConnections(i, co, wf, num_samples, delay) ==
    {<<k, i, Divide(wf * co[k], num_samples), delay>> : k \in Keys(co)}

\* SpecificProbabilisticArborization._connect
ConnectSpecificProbabilisticArborization ==
    /\ conn_pc = "constructed"
    /\ conn_params.variant = "SpecificProbabilisticArborization"
    /\ LET wf == conn_params.weight_factor * conn_self.weight_scaler
           weights == conn_self.connection_matrix
       IN  \E counters \in [0..(NTargets - 1) ->
                               sample_from_bin_distribution(
                                   Size(weights), conn_params.num_samples)] :
              LET cl == UNION {ArborizedConnections(i, counters[i], wf,
                                                    conn_params.num_samples,
                                                    conn_params.delay) :
                                  i \in 0..(NTargets - 1)}
                  processed == Array([i \in 0..(NTargets - 1) |->
                                  [target |-> i, co |-> counters[i]]])
              IN  /\ conn_self' = Left(cl, TRUE, TRUE, processed)
                  /\ conn_log' = NoLog
                  /\ conn_pc' = "connected"
    /\ UNCHANGED conn_params
    /\ UNCHANGED <<cellvars, retinavars, ctlvars, storevars>>

ConnectNext ==
    \/ ConnectModularConnector
    \/ ConnectSampling
    \/ ConnectSingleWeight
    \/ ConnectAnnotationSamplesCount
    \/ ConnectSpecificArborization
    \/ ConnectSpecificProbabilisticArborization

(***************************************************************************)
(* C5: for a blank stimulus (every frame viewed is uniformly the           *)
(* background luminance B), after initialize(B, duration) and one view()   *)
(* per frame, every amplitude response_current() returns on the linear     *)
(* path is gain * B * (the sum of all kernel entries), the steady-state    *)
(* amplitude of provide_null_input before linear_scaler; for every         *)
(* update_factor and every stimulus length.                                *)
(***************************************************************************)
C5_BlankResponseIsSteadyState ==
    (/\ cell_pc = "FINALIZED"
     /\ cell_hist.blank
     /\ cell_hist.views = FrameCount(cell_hist.stimulus_duration, vs.update_interval))
    => \A j \in DOMAIN cell_out.amplitudes :
          cell_out.amplitudes[j] = gain * KernelSum(rf) * vs.background_luminance

\* a blank stimulus shorter than the kernel, seen at update_factor 2, by a
\* kernel whose sum is not zero
C5_Witness ==
    /\ cell_pc = "FINALIZED"
    /\ cell_hist.blank
    /\ cell_hist.views = FrameCount(cell_hist.stimulus_duration, vs.update_interval)
    /\ cell.update_factor = 2
    /\ Size(cell_out.amplitudes) >= 2
    /\ Size(cell_out.amplitudes) < kernel_duration(rf)
    /\ KernelSum(rf) # 0

(***************************************************************************)
(* C1: in a single process, the currents a process_input call injects      *)
(* come from the on-disk cache if it is enabled and holds the stimulus     *)
(* identity (trial stripped), else from the in-run cache if that holds     *)
(* it, and are calculated only when both miss; so in one run               *)
(* _calculate_input_currents runs at most once per stimulus identity       *)
(* ignoring the trial number.                                              *)
(***************************************************************************)
C1_CachePriority ==
    /\ [][(mpi_size = 1 /\ ncalls' = ncalls + 1 /\ last'.op = "process_input") =>
            LET key == last'.key
                on_disk == /\ parameters.cached
                           /\ disk.index.exists
                           /\ key \in DOMAIN disk.index.map
                in_run == key \in DOMAIN internal_stimulus_cache
            IN  /\ key[2] = 0
                /\ on_disk => /\ last'.source = "disk"
                              /\ last'.used = disk.files[disk.index.map[key]]
                /\ (~on_disk /\ in_run) => /\ last'.source = "inrun"
                                           /\ last'.used = internal_stimulus_cache[key]
                /\ (~on_disk /\ ~in_run) => last'.source = "calc"
                /\ (calculated' # calculated) <=> (~on_disk /\ ~in_run)]_vars
    /\ [](mpi_size = 1 => \A name \in StimulusNames : calculated[name] <= 1)

\* three presentations of one stimulus, the last from the in-run cache, and
\* one calculation
C1_Witness ==
    /\ mpi_size = 1
    /\ ncalls = 3
    /\ last.op = "process_input"
    /\ last.source = "inrun"
    /\ calculated[last.key[1]] = 1
    /\ calculated[CHOOSE n \in StimulusNames : n # last.key[1]] = 0

(***************************************************************************)
(* C2: once a stimulus identity has an entry in the in-run cache, no       *)
(* later process_input or provide_null_input call changes the (times,      *)
(* amplitudes) stored there, and a presentation of an identity the in-run  *)
(* cache holds uses exactly the stored traces.                             *)
(***************************************************************************)
C2_InRunCacheStable ==
    [][\A key \in DOMAIN internal_stimulus_cache :
          /\ key \in DOMAIN internal_stimulus_cache'
          /\ internal_stimulus_cache'[key] = internal_stimulus_cache[key]
          /\ (last'.op = "process_input" /\ last'.key = key /\ ncalls' = ncalls + 1)
                => last'.used = internal_stimulus_cache[key]]_vars

\* a stimulus presented again, at an offset, its stored trace not zero
C2_Witness ==
    /\ last.op = "process_input"
    /\ last.source = "inrun"
    /\ last.offset # 0
    /\ parameters.linear_scaler # 1
    /\ last.key \in DOMAIN internal_stimulus_cache
    /\ \E ty \in RfTypes :
          \E k \in DOMAIN internal_stimulus_cache[last.key].input_currents[ty] :
             internal_stimulus_cache[last.key].input_currents[ty][k].amplitudes[0] # 0

(***************************************************************************)
(* C3: with more than one process, a process_input call neither reads nor  *)
(* writes a file of the on-disk cache, whatever the parameter cached, and  *)
(* completes normally.                                                     *)
(***************************************************************************)
C3_DiskCacheOffUnderMpi ==
    (mpi_size > 1 /\ last.op = "process_input"
        /\ last.visual_space = RetinaVisualSpace)
    => /\ ~last.reads
       /\ ~last.writes
       /\ last.error = "none"
       /\ retina_pc = "running"

(***************************************************************************)
(* C4: in a single process with the on-disk cache enabled, after a         *)
(* process_input call has returned the stimulus identity is in both cache  *)
(* tiers, and get_cache returns for it exactly the pair that was           *)
(* persisted; so does it for every identity presented earlier in the run.  *)
(***************************************************************************)
C4_WriteThenGetRoundTrip ==
    (mpi_size = 1 /\ parameters.cached /\ retina_pc = "running")
    => /\ \A key \in DOMAIN internal_stimulus_cache :
              /\ get_cache(key).hit
              /\ get_cache(key).value = internal_stimulus_cache[key]
       /\ last.op = "process_input"
              => /\ last.key \in DOMAIN internal_stimulus_cache
                 /\ get_cache(last.key).hit
                 /\ get_cache(last.key).value = last.used

\* the second identity of a run calculated and written to the cache
C4_Witness ==
    /\ mpi_size = 1
    /\ parameters.cached
    /\ last.op = "process_input"
    /\ last.source = "calc"
    /\ last.writes
    /\ Cardinality(DOMAIN disk.index.map) = 2
    /\ get_cache(last.key).hit
    /\ get_cache(last.key).value = last.used

(***************************************************************************)
(* C6: _obtain_delays first rounds each computed delay to the nearest      *)
(* multiple of the simulation time step (a half to the even multiple) and  *)
(* then replaces a rounded value greater than 14.4 ms by 14.4 ms, for      *)
(* every time step; where 14.4 ms is a multiple of the time step this is:  *)
(* a computed delay greater than 14.4 ms gives 14.4 ms, every other one    *)
(* its nearest multiple of the time step.                                  *)
(***************************************************************************)
C6_RoundThenClamp ==
    conn_pc = "delays_obtained" =>
        \A k \in DOMAIN conn_self.delays :
            LET c == conn_params.computed[k]
                out == conn_self.delays[k]
                step == conn_self.simulator_time_step
                Nearest(r) == /\ r % step = 0
                              /\ 2 * Abs(r - c) <= step
                              /\ 2 * Abs(r - c) = step => (r \div step) % 2 = 0
            IN  /\ \E r \in 0..(c + step) :
                      /\ Nearest(r)
                      /\ out = IF r > MaxDelay THEN MaxDelay ELSE r
                /\ MaxDelay % step = 0 =>
                      IF c > MaxDelay THEN out = MaxDelay ELSE Nearest(out)

\* a time step of which 14.4 ms is no multiple: a computed delay below
\* 14.4 ms returned as 14.4 ms, next to one above 14.4 ms
C6_Witness ==
    /\ conn_pc = "delays_obtained"
    /\ MaxDelay % conn_self.simulator_time_step # 0
    /\ \E k \in DOMAIN conn_self.delays :
          /\ conn_params.computed[k] < MaxDelay
          /\ conn_self.delays[k] = MaxDelay
    /\ \E k \in DOMAIN conn_self.delays : conn_params.computed[k] > MaxDelay

\* C6 as stated: a computed delay greater than 14.4 ms is returned as
\* 14.4 ms, every other one rounded to the nearest multiple of the time
\* step, for every time step
C6_ClampOfComputed ==
    conn_pc = "delays_obtained" =>
        \A k \in DOMAIN conn_self.delays :
            LET c == conn_params.computed[k]
                out == conn_self.delays[k]
                step == conn_self.simulator_time_step
            IN  IF c > MaxDelay
                THEN out = MaxDelay
                ELSE /\ out % step = 0
                     /\ 2 * Abs(out - c) <= step

(***************************************************************************)
(* C7: every delay _obtain_delays returns is at most 14.4 ms and is an     *)
(* integer multiple of the simulation time step, for every time step and   *)
(* every computed delay.                                                   *)
(***************************************************************************)
C7_DelaysBoundedAndOnGrid ==
    conn_pc = "delays_obtained" =>
        \A k \in DOMAIN conn_self.delays :
            /\ conn_self.delays[k] <= MaxDelay
            /\ conn_self.delays[k] % conn_self.simulator_time_step = 0

(***************************************************************************)
(* C8: connect() of each of the four connectors creates a Projection if    *)
(* and only if the connection list realized is not empty; with no          *)
(* connection realized (no target index to process included) it returns    *)
(* normally, creates no Projection and logs a warning. (A failed           *)
(* assertion of the sample count is C10's case.)                           *)
(***************************************************************************)
C8_ProjectionIffConnections ==
    (conn_pc \in {"connected", "connect_failed"}
        /\ conn_log.error # "AssertionError") =>
        /\ conn_self.proj <=> conn_self.cl # {}
        /\ conn_self.cl = {} =>
              /\ conn_pc = "connected"
              /\ conn_log.error = "none"
              /\ EmptyProjectionWarning \in conn_log.warnings

(***************************************************************************)
(* C9: ModularConnector.__init__ succeeds exactly when every variable name *)
(* of the weight expression has a configured weight function whose         *)
(* component is a ModularConnectorFunction, and every variable name of the *)
(* delay expression has a configured delay function; a configured          *)
(* function that no variable names is ignored.                             *)
(***************************************************************************)
C9_NamesAreConfigured ==
    conn_pc \in {"constructed", "construct_failed"}
        /\ "weight_expression" \in DOMAIN conn_params =>
        LET FreeNames(tree) ==
                {id \in WeightNames \cup DelayNames :
                    \/ tree = Name(id)
                    \/ tree.node = "BinOp"
                          /\ (tree.left = Name(id) \/ tree.right = Name(id))}
            wnames == FreeNames(conn_params.weight_expression)
            dnames == FreeNames(conn_params.delay_expression)
            ok == /\ wnames \subseteq DOMAIN conn_params.weight_functions
                  /\ \A k \in wnames :
                        conn_params.weight_functions[k] = "ModularConnectorFunction"
                  /\ dnames \subseteq DOMAIN conn_params.delay_functions
        IN  /\ conn_pc = "constructed" <=> ok
            /\ conn_pc = "constructed" =>
                  /\ DOMAIN conn_self.weight_functions = wnames
                  /\ DOMAIN conn_self.delay_functions = dnames
                  /\ conn_log.error = "none"
            /\ conn_pc = "construct_failed" =>
                  conn_log.error \in {"KeyError", "AssertionError"}

\* a connector constructed with a weight function and a delay function that
\* no variable of the expressions names
C9_Witness ==
    /\ conn_pc = "constructed"
    /\ "weight_expression" \in DOMAIN conn_params
    /\ DOMAIN conn_self.weight_functions # {}
    /\ DOMAIN conn_self.weight_functions # DOMAIN conn_params.weight_functions
    /\ DOMAIN conn_self.delay_functions # DOMAIN conn_params.delay_functions

\* C9 as stated: constructed only when the variable names of each
\* expression are exactly the configured names
C9_NamesEqualConfigured ==
    (conn_pc = "constructed" /\ "weight_expression" \in DOMAIN conn_params) =>
        /\ Range(conn_self.weight_function_names) = DOMAIN conn_params.weight_functions
        /\ Range(conn_self.delay_function_names) = DOMAIN conn_params.delay_functions

(***************************************************************************)
(* C10: in connect() of the annotation-sample-count connector, for each    *)
(* target processed, of annotation s: with num_samples = 0 exactly int(s)  *)
(* samples are drawn, else exactly num_samples - 2 int(s), which needs     *)
(* num_samples > 2 int(s); if a local target violates that, connect()      *)
(* fails with AssertionError at the first such target, and neither         *)
(* FromListConnector nor Projection is called.                             *)
(***************************************************************************)
C10_AnnotationSampleCounts ==
    (conn_pc \in {"connected", "connect_failed"}
        /\ conn_params.variant =
              "ModularSamplingProbabilisticConnectorAnnotationSamplesCount") =>
        LET num_samples == conn_params.num_samples
            local == {i \in DOMAIN conn_params.mask_local : conn_params.mask_local[i]}
            Violates(i) == /\ num_samples # 0
                           /\ ~(num_samples > 2 * (conn_params.annotation[i] \div 10))
            violating == {i \in local : Violates(i)}
            processed == conn_self.processed
        IN  /\ \A p \in DOMAIN processed :
                  LET s == conn_params.annotation[processed[p].target]
                  IN  /\ ~Violates(processed[p].target)
                      /\ processed[p].drawn =
                            IF num_samples = 0 THEN s \div 10
                            ELSE num_samples - 2 * (s \div 10)
            /\ {processed[p].target : p \in DOMAIN processed} =
                  {i \in local : \A v \in violating : i < v}
            /\ violating # {} <=> conn_log.error = "AssertionError"
            /\ violating # {} =>
                  /\ conn_pc = "connect_failed"
                  /\ ~conn_self.method
                  /\ ~conn_self.proj

\* the second target fails the assertion after the first has drawn samples
C10_Witness ==
    /\ conn_pc = "connect_failed"
    /\ conn_params.variant =
          "ModularSamplingProbabilisticConnectorAnnotationSamplesCount"
    /\ conn_log.error = "AssertionError"
    /\ conn_params.num_samples # 0
    /\ Size(conn_self.processed) = 1
    /\ conn_self.processed[0].drawn > 0
    /\ conn_self.cl # {}
    /\ ~conn_self.proj

(***************************************************************************)
(* C11: after connect() of the sampling connector, for every target        *)
(* processed the realized edges are exactly the sources drawn for it, each *)
(* (source, target) pair once, with weight weight_scaler * (the base       *)
(* weight drawn for the edge) * (the number of times the source was        *)
(* drawn); the multiplicities of a target's edges sum to the number of     *)
(* samples int(num_samples.next()) drawn for that target, so with a        *)
(* constant base weight b its weights sum to weight_scaler * b * that      *)
(* number.                                                                 *)
(***************************************************************************)
C11_SampledWeights ==
    (conn_pc = "connected"
        /\ conn_params.variant = "ModularSamplingProbabilisticConnector") =>
        LET scaler == WeightScaler(conn_params.short_term_plasticity)
            processed == conn_self.processed
            sources == 0..(conn_params.source_size - 1)
        IN  /\ \A e \in conn_self.cl :
                  \E p \in DOMAIN processed : processed[p].target = e[2]
            /\ \A p \in DOMAIN processed :
                  LET co == processed[p].co
                      edges == {e \in conn_self.cl : e[2] = processed[p].target}
                      number == processed[p].num_samples \div 10
                      Of(k) == CHOOSE e \in edges : e[1] = k
                      drawn == {k \in sources : \E e \in edges : e[1] = k}
                  IN  /\ \A e1, e2 \in edges : e1[1] = e2[1] => e1 = e2
                      /\ drawn = {k \in sources : co[k] > 0}
                      /\ \A e \in edges :
                            e[3] = scaler * processed[p].base[e[1]] * co[e[1]]
                      /\ Sum([k \in sources |->
                                 IF k \in drawn THEN co[k] ELSE 0]) = number
                      /\ \A b \in conn_params.base_weight :
                            conn_params.base_weight = {b} =>
                               Sum([k \in sources |->
                                       IF k \in drawn THEN Of(k)[3] ELSE 0])
                                  = scaler * b * number

\* a target with three samples on two sources, one of them drawn twice, of
\* different base weights, under short term plasticity; and a target whose
\* num_samples.next() was not a whole number
C11_Witness ==
    /\ conn_pc = "connected"
    /\ conn_params.variant = "ModularSamplingProbabilisticConnector"
    /\ conn_self.weight_scaler = 1000
    /\ Size(conn_self.processed) = 2
    /\ conn_self.processed[0].num_samples = 30
    /\ conn_self.processed[0].co = Array([k \in 0..1 |-> 2 - k])
    /\ conn_self.processed[0].base[0] # conn_self.processed[0].base[1]
    /\ conn_self.processed[1].num_samples = 25
    /\ <<0, conn_self.processed[0].target,
         1000 * conn_self.processed[0].base[0] * 2, 1440>> \in conn_self.cl

(***************************************************************************)
(* C12: after connect() of the single weight connector there is one        *)
(* Bernoulli trial per (source, target) pair: for every target processed,  *)
(* source k is in the realized list iff its score weights[k] /             *)
(* sum(weights) * connection_probability * len(weights) is strictly        *)
(* greater than the uniform number of [0, 1) drawn for that pair; so each  *)
(* pair is listed at most once, a source of score 0 is never connected     *)
(* and a source of score >= 1 always is.                                   *)
(***************************************************************************)
C12_OneTrialPerPair ==
    (conn_pc = "connected"
        /\ conn_params.variant = "ModularSingleWeightProbabilisticConnector") =>
        LET weights == conn_params.weights
            total == Sum(weights)
            \* the score of source k in hundredths, times sum(weights)
            Score(k) == weights[k] * conn_params.connection_probability
                           * conn_params.source_size
            processed == conn_self.processed
        IN  /\ \A e \in conn_self.cl :
                  \E p \in DOMAIN processed : processed[p].target = e[2]
            /\ \A p \in DOMAIN processed : \A k \in DOMAIN weights :
                  LET edges == {e \in conn_self.cl :
                                   e[1] = k /\ e[2] = processed[p].target}
                      rand == processed[p].rand[k]
                  IN  /\ Cardinality(edges) <= 1
                      /\ rand \in 0..99
                      \* the scores are nan: no comparison is true
                      /\ total = 0 => edges = {}
                      /\ total > 0 =>
                            /\ edges # {} <=> Score(k) > rand * total
                            /\ Score(k) = 0 => edges = {}
                            /\ Score(k) >= 100 * total => edges # {}

\* a source of score 0 left out though 0 was drawn for it, and a source of
\* score 1 connected though 0.99 was drawn
C12_Witness ==
    /\ conn_pc = "connected"
    /\ conn_params.variant = "ModularSingleWeightProbabilisticConnector"
    /\ conn_params.weights = Array([k \in 0..1 |-> k])
    /\ conn_params.connection_probability = 50
    /\ Size(conn_self.processed) = 2
    /\ conn_self.processed[0].rand = Array([k \in 0..1 |-> 99 * k])
    /\ {e[1] : e \in {x \in conn_self.cl : x[2] = conn_self.processed[0].target}}
          = {1}

(***************************************************************************)
(* C13: after connect() of SpecificArborization the realized list holds    *)
(* exactly the (source, target) entries whose normalized weight is         *)
(* strictly greater than one hundredth of the maximum weight of the        *)
(* normalized matrix: every edge of weight <= max_weight / 100 is removed  *)
(* and no edge of weight > max_weight / 100 is.                            *)
(***************************************************************************)
C13_PrunedBelowHundredthOfMax ==
    (conn_pc = "connected" /\ conn_params.variant = "SpecificArborization") =>
        LET matrix == conn_self.connection_matrix
            weights == {x \in {matrix[k][i] : k \in DOMAIN matrix,
                                                i \in 0..(NTargets - 1)} : ~x.nan}
            max_weight == CHOOSE x \in weights :
                             \A y \in weights : x.num * y.den >= y.num * x.den
        IN  \A k \in DOMAIN matrix : \A i \in 0..(NTargets - 1) :
               LET c == matrix[k][i]
               IN  (\E e \in conn_self.cl : e[1] = k /\ e[2] = i /\ e[3] = c)
                   <=> (/\ ~c.nan
                        /\ c.num * max_weight.den * 100 > max_weight.num * c.den)

(***************************************************************************)
(* C14: after connect() of SpecificArborization, for every target whose    *)
(* column of the connection matrix has a sum that is not zero, the weights *)
(* of its realized edges plus the weights of its pruned edges sum to       *)
(* weight_factor * weight_scaler.                                          *)
(***************************************************************************)
C14_ColumnSumsToWeightFactor ==
    (conn_pc = "connected" /\ conn_params.variant = "SpecificArborization") =>
        \A i \in 0..(NTargets - 1) :
           LET total == Sum(Column(conn_params.connection_matrix, i))
               sources == DOMAIN conn_params.connection_matrix
               realized == {e \in conn_self.cl : e[2] = i}
               pruned == {k \in sources : \A e \in realized : e[1] # k}
               \* the weight of source k, times the sum of the column
               Weight(k) ==
                   LET c == IF k \in pruned
                            THEN conn_self.connection_matrix[k][i]
                            ELSE (CHOOSE e \in realized : e[1] = k)[3]
                   IN  (c.num * total) \div c.den
           IN  total # 0 =>
                  /\ \A e1, e2 \in realized : e1[1] = e2[1] => e1 = e2
                  /\ \A k \in sources :
                        ~conn_self.connection_matrix[k][i].nan
                  /\ Sum([k \in sources |-> Weight(k)]) =
                        conn_params.weight_factor
                           * WeightScaler(conn_params.short_term_plasticity) * total

\* a target with one edge realized and one pruned, which was a hundredth of
\* the maximum of the matrix, under short term plasticity
C14_Witness ==
    /\ conn_pc = "connected"
    /\ conn_params.variant = "SpecificArborization"
    /\ conn_params.short_term_plasticity # "None"
    /\ conn_params.weight_factor = 3
    /\ conn_params.source_size = 2
    /\ Column(conn_params.connection_matrix, 0) = Array([k \in 0..1 |-> 1 + 98 * k])
    /\ Column(conn_params.connection_matrix, 1) = Array([k \in 0..1 |-> 99 * k])
    /\ {e[1] : e \in {x \in conn_self.cl : x[2] = 0}} = {1}
    /\ conn_self.connection_matrix[0][0] = Number(30, 1)

(***************************************************************************)
(* C15: in each of the six connectors, every weight of the realized        *)
(* connection list is weight_scaler times the weight the connector         *)
(* computes without it (the factor is applied exactly once), where         *)
(* weight_scaler is 1000 when short_term_plasticity is configured and 1    *)
(* otherwise; the factor is set by the constructor and connect() does not  *)
(* change it.                                                              *)
(***************************************************************************)
C15_WeightScalerOnce ==
    conn_pc \in {"constructed", "connected", "connect_failed"} =>
        LET scaler == IF conn_params.short_term_plasticity = "None"
                      THEN 1 ELSE 1000
            variant == conn_params.variant
            Of(i) == CHOOSE p \in DOMAIN conn_self.processed :
                        conn_self.processed[p].target = i
            \* the weight of edge e before the factor
            Unscaled(e) ==
                CASE variant = "ModularConnector" -> conn_params.weights[e[1]]
                  [] variant = "ModularSingleWeightProbabilisticConnector" ->
                        conn_self.processed[Of(e[2])].base[e[1]]
                  [] variant \in
                        {"ModularSamplingProbabilisticConnector",
                         "ModularSamplingProbabilisticConnectorAnnotationSamplesCount"} ->
                        conn_self.processed[Of(e[2])].base[e[1]]
                           * conn_self.processed[Of(e[2])].co[e[1]]
                  [] variant = "SpecificArborization" ->
                        Number(conn_params.connection_matrix[e[1]][e[2]]
                                  * conn_params.weight_factor,
                               Sum(Column(conn_params.connection_matrix, e[2])))
                  [] variant = "SpecificProbabilisticArborization" ->
                        Number(conn_params.weight_factor
                                  * conn_self.processed[Of(e[2])].co[e[1]],
                               conn_params.num_samples)
        IN  /\ conn_self.weight_scaler = scaler
            /\ conn_pc = "connected" =>
                  \A e \in conn_self.cl :
                     IF variant \in {"SpecificArborization",
                                     "SpecificProbabilisticArborization"}
                     THEN /\ ~e[3].nan
                          /\ e[3] = Number(scaler * Unscaled(e).num, Unscaled(e).den)
                     ELSE e[3] = scaler * Unscaled(e)

\* SpecificProbabilisticArborization under short term plasticity: a source
\* drawn for two of the three samples of a target, of weight 1000 * 3 * 2 / 3
C15_Witness ==
    /\ conn_pc = "connected"
    /\ conn_params.variant = "SpecificProbabilisticArborization"
    /\ conn_params.short_term_plasticity = "configured"
    /\ conn_params.weight_factor = 3
    /\ conn_params.num_samples = 3
    /\ <<0, 1, Number(2000, 1), 25>> \in conn_self.cl
    /\ <<1, 1, Number(1000, 1), 25>> \in conn_self.cl

C17_RaisedWhereCellsAreConstructed ==
    LET multiple == \A ty \in RfTypes :
                       last.visual_space.update_interval
                          % RetinaRf(ty).temporal_resolution = 0
        local == \E ty \in RfTypes : \E i \in DOMAIN mask_local[ty] :
                    mask_local[ty][i]
    IN  /\ last.error = "Exception" =>
              /\ ~multiple
              /\ retina_pc = "crashed"
              /\ last.injected = NoInjection
              /\ ~last.writes
              /\ last.key \notin DOMAIN internal_stimulus_cache
        /\ (~multiple /\ last.op = "provide_null_input") =>
              last.error = "Exception"
        /\ (~multiple /\ last.op = "process_input") =>
              (last.error = "Exception" <=> (last.source = "calc" /\ local))

\* a pipeline given a visual space of update interval 3 (the temporal
\* resolution is 2): process_input has raised in the second call, after a
\* first call completed
C17_Witness ==
    /\ ncalls = 2
    /\ last.op = "process_input"
    /\ last.visual_space.update_interval = 3
    /\ last.source = "calc"
    /\ last.error = "Exception"
    /\ retina_pc = "crashed"
    /\ DOMAIN internal_stimulus_cache # {}

\* C17 as stated: no process_input or provide_null_input call ever starts
\* with a ratio that is not an integer
C17_NoCallStarts ==
    last.op # "none" =>
        \A ty \in RfTypes :
           last.visual_space.update_interval % RetinaRf(ty).temporal_resolution = 0

\* C18: whenever quantize(dx, dy, dt) with dx = dy has built a kernel, the
\* kernel has ny = ceil(height / dy) rows, nx = ceil(width / dx) columns and
\* nt = ceil(duration / dt) time bins, and on each axis count x step is at
\* least the requested size.
C18_KernelCoversRequestedSize ==
    (rf_call.n > 0 /\ rf_call.error = "None") =>
        LET g == Grid(rf, rf_call.dx, rf_call.dy, rf_call.dt)
        IN  /\ Size(rf.kernel) = g.nt
            /\ \A t \in DOMAIN rf.kernel : Size(rf.kernel[t]) = g.ny * g.nx
            /\ rf.ny = g.ny
            /\ rf.nx = g.nx
            /\ ScaledLeq(1, rf.width, rf.nx, rf_call.dx)
            /\ ScaledLeq(1, rf.height, rf.ny, rf_call.dy)
            /\ ScaledLeq(1, rf.duration, Size(rf.kernel), rf_call.dt)

\* C19: a quantize(dx, dy, dt) call with dx # dy fails with an AssertionError
\* and leaves the receptive field as it was: kernel, spatial_resolution and
\* temporal_resolution keep the values they had before the call.
C19_UnequalStepsRejected ==
    [][(rf_call'.n = rf_call.n + 1 /\ rf_call'.dx # rf_call'.dy) =>
          /\ rf_call'.error = "AssertionError"
          /\ rf'.kernel = rf.kernel
          /\ rf'.spatial_resolution = rf.spatial_resolution
          /\ rf'.temporal_resolution = rf.temporal_resolution
          /\ rf' = rf]_vars

\* a call with unequal steps was rejected on a receptive field that an earlier
\* call had quantized with other steps
C19_Witness ==
    /\ rf_call.n = 2
    /\ rf_call.dx # rf_call.dy
    /\ rf_call.error = "AssertionError"
    /\ rf.quantized
    /\ rf.spatial_resolution \notin {rf_call.dx, rf_call.dy}
    /\ rf.temporal_resolution # rf_call.dt
    /\ Size(rf.kernel) > 1

FullPopulationCurrents ==
    [name \in StimulusNames |->
        CalculateInputCurrents(RetinaVisualSpace, name, StimulusDuration(name),
                               AllLocal, 1, FALSE).input_currents]

\* C21: a process_input call injects one step current into every local neuron
\* i of the ON and of the OFF population and into no other; its times are
\* those of the trace used for neuron i at the indices 0, 8, 16, ... plus the
\* offset, its amplitudes linear_scaler times the amplitudes at these indices;
\* a trace that was calculated in the call is the trace of neuron i itself,
\* whichever neurons of the population are local.
C21_OwnTraceSubsampled ==
    (last.op = "process_input" /\ last.error # "Exception") =>
        \A ty \in RfTypes :
            LET local == {i \in 0..(NCells - 1) : mask_local[ty][i]}
            IN  /\ DOMAIN last.injected[ty] = local
                /\ \A i \in local :
                       LET k == Cardinality({j \in local : j < i})
                           trace == last.used.input_currents[ty][k]
                           own == FullPopulationCurrents[last.key[1]][ty][i]
                           w == last.injected[ty][i]
                           points == {m \in DOMAIN trace.times :
                                         m % InjectionStride = 0}
                       IN  /\ DOMAIN trace.times = DOMAIN trace.amplitudes
                           /\ DOMAIN w.times = 0..(Cardinality(points) - 1)
                           /\ DOMAIN w.amplitudes = DOMAIN w.times
                           /\ \A m \in DOMAIN w.times :
                                  /\ w.times[m] =
                                         trace.times[InjectionStride * m] + last.offset
                                  /\ w.amplitudes[m] =
                                         parameters.linear_scaler
                                             * trace.amplitudes[InjectionStride * m]
                           /\ last.source = "calc" =>
                                  /\ trace.times = own.times
                                  /\ \A j \in DOMAIN trace.amplitudes :
                                         trace.amplitudes[j] =
                                             parameters.gain * own.amplitudes[j]

\* a calculated presentation on a process where the second neuron is local and
\* the first is not, the waveform injected having more than one point
C21_Witness ==
    /\ last.op = "process_input"
    /\ last.error = "none"
    /\ last.source = "calc"
    /\ last.offset > 0
    /\ \A ty \in RfTypes :
           /\ ~mask_local[ty][0]
           /\ mask_local[ty][1]
           /\ Size(last.injected[ty][1].times) > 1
           /\ FullPopulationCurrents[last.key[1]][ty][0]
                  # FullPopulationCurrents[last.key[1]][ty][1]

\* C22: a provide_null_input call that returns injects into every cell of the
\* ON and of the OFF population one waveform of two points, at the times
\* offset and offset + duration - update_interval, both with the amplitude
\* linear_scaler * gain * kernel sum * background luminance; it calls neither
\* visual_space.update nor cell.view, and leaves the in-run cache and the
\* on-disk cache as they were.
C22_NullInputTwoPoints ==
    [][(ncalls' = ncalls + 1 /\ last'.op = "provide_null_input"
            /\ last'.error = "none") =>
          /\ disk' = disk
          /\ cached_stimuli' = cached_stimuli
          /\ internal_stimulus_cache' = internal_stimulus_cache
          /\ last'.updates = 0
          /\ \A j \in DOMAIN last'.calls :
                 last'.calls[j].call \notin {"update", "view"}
          /\ \A ty \in RfTypes :
                 /\ DOMAIN last'.injected[ty] = 0..(NCells - 1)
                 /\ \A i \in 0..(NCells - 1) :
                        LET w == last'.injected[ty][i]
                            amplitude ==
                                parameters.linear_scaler * parameters.gain
                                    * KernelSum(RetinaRf(ty))
                                    * last'.visual_space.background_luminance
                        IN  /\ DOMAIN w.times = 0..1
                            /\ DOMAIN w.amplitudes = 0..1
                            /\ w.times[0] = last'.offset
                            /\ w.times[1] = last'.offset + last'.duration
                                   - last'.visual_space.update_interval
                            /\ w.amplitudes[0] = amplitude
                            /\ w.amplitudes[1] = amplitude]_vars

\* a null input was provided, at an offset, after a stimulus had been
\* presented and cached in the run and on disk
C22_Witness ==
    /\ last.op = "provide_null_input"
    /\ last.error = "none"
    /\ last.offset > 0
    /\ internal_stimulus_cache # EmptyDict
    /\ disk.index.map # EmptyDict
    /\ \A ty \in RfTypes :
           /\ Size(last.injected[ty]) = NCells
           /\ last.injected[ty][0].amplitudes[1] # 0

\* C23: the OFF kernel is the negation of the ON kernel at every index; in a
\* process_input call every amplitude of the trace of the k-th OFF cell is the
\* negation of the amplitude of the k-th ON cell at the same time, and so are
\* the amplitudes injected; the amplitudes provide_null_input injects into
\* the two populations are negations of each other.
C23_OffIsNegatedOn ==
    /\ DOMAIN RetinaRf("X_OFF").kernel = DOMAIN RetinaRf("X_ON").kernel
    /\ \A t \in DOMAIN RetinaRf("X_ON").kernel :
           /\ DOMAIN RetinaRf("X_OFF").kernel[t] = DOMAIN RetinaRf("X_ON").kernel[t]
           /\ \A p \in DOMAIN RetinaRf("X_ON").kernel[t] :
                  RetinaRf("X_OFF").kernel[t][p] = -RetinaRf("X_ON").kernel[t][p]
    /\ (last.op \in {"process_input", "provide_null_input"}
            /\ last.error # "Exception") =>
           LET on == last.used.input_currents["X_ON"]
               off == last.used.input_currents["X_OFF"]
           IN  /\ DOMAIN on = DOMAIN off
               /\ \A k \in DOMAIN on :
                      /\ on[k].times = off[k].times
                      /\ DOMAIN on[k].amplitudes = DOMAIN off[k].amplitudes
                      /\ \A j \in DOMAIN on[k].amplitudes :
                             off[k].amplitudes[j] = -on[k].amplitudes[j]
               /\ DOMAIN last.injected["X_ON"] = DOMAIN last.injected["X_OFF"]
               /\ \A i \in DOMAIN last.injected["X_ON"] :
                      LET w == last.injected["X_ON"][i]
                          v == last.injected["X_OFF"][i]
                      IN  /\ w.times = v.times
                          /\ DOMAIN w.amplitudes = DOMAIN v.amplitudes
                          /\ \A j \in DOMAIN w.amplitudes :
                                 v.amplitudes[j] = -w.amplitudes[j]

\* traces were calculated for frames with contrast, and the amplitudes
\* injected into the first local ON cell are not all the same
C23_Witness ==
    /\ last.op = "process_input"
    /\ last.source = "calc"
    /\ last.error = "none"
    /\ \E i \in DOMAIN last.injected["X_ON"] :
           LET w == last.injected["X_ON"][i]
           IN  /\ Size(w.amplitudes) > 1
               /\ w.amplitudes[0] # 0
               /\ w.amplitudes[1] # w.amplitudes[0]

Plus(a, b) == Number(a.num * b.den + b.num * a.den, a.den * b.den)

RECURSIVE TargetWeightSum(_, _, _)
\* the sum of the weights of the edges of cl from sources below n to target i
TargetWeightSum(cl, i, n) ==
    IF n = 0 THEN Number(0, 1)
    ELSE LET edges == {e \in cl : e[1] = n - 1 /\ e[2] = i}
             rest == TargetWeightSum(cl, i, n - 1)
         IN  IF edges = {} THEN rest
             ELSE Plus(rest, (CHOOSE e \in edges : TRUE)[3])

\* the number of draws made for target i
DrawsOf(i) ==
    Sum(conn_self.processed[CHOOSE p \in DOMAIN conn_self.processed :
                               conn_self.processed[p].target = i].co)

C26_CellProtocol ==
    (/\ last.op = "process_input"
     /\ last.source = "calc"
     /\ last.error # "Exception") =>
        LET calls == last.calls
            At(call) == {p \in DOMAIN calls : calls[p].call = call}
            Of(call, ty, k) == {p \in At(call) : /\ calls[p].rf_type = ty
                                                 /\ calls[p].cell = k}
            updates == Cardinality(At("update"))
            interval == last.visual_space.update_interval
            Stamp(c) == IF c.call = "update" THEN 2 * c.frame + 1 ELSE 2 * c.frame
        IN  /\ DOMAIN calls = At("initialize") \cup At("update")
                                 \cup At("view") \cup At("response_current")
            /\ \A ty \in RfTypes :
                  \A k \in DOMAIN Nonzero(mask_local[ty]) :
                     /\ Cardinality(Of("initialize", ty, k)) = 1
                     /\ Cardinality(Of("response_current", ty, k)) = 1
                     /\ Cardinality(Of("view", ty, k)) = updates
                     /\ \A f \in 1..updates :
                           \E p \in Of("view", ty, k) : calls[p].frame = f
            /\ \A p \in At("initialize") : \A q \in At("update") \cup At("view") : p < q
            /\ \A p \in At("update") \cup At("view") :
                  /\ \A q \in At("response_current") : p < q
                  /\ \A q \in At("update") \cup At("view") :
                        p < q => Stamp(calls[p]) <= Stamp(calls[q])
            /\ \A q \in At("response_current") : calls[q].frame = updates
            /\ updates * interval >= last.duration
            /\ updates > 0 => (updates - 1) * interval < last.duration
            /\ Size(last.used.retinal_input) = updates

\* a run of at least two frames with a local cell in both populations
C26_Witness ==
    /\ last.op = "process_input"
    /\ last.source = "calc"
    /\ last.error = "none"
    /\ \A ty \in RfTypes : Size(Nonzero(mask_local[ty])) = NCells
    /\ \E p \in DOMAIN last.calls :
          /\ last.calls[p] = Call("view", "X_OFF", NCells - 1, 2)
          /\ p < Len(last.calls) - 2 * NCells

(***************************************************************************)
(* C27: after initialize and k view() calls the frame offset i is          *)
(* k * update_factor; a view() leaves the response, mean and std buffers   *)
(* at their length; and a view() after which i <= N, N being               *)
(* ceil(stimulus_duration / temporal_resolution), adds the whole time      *)
(* course of kernel_duration entries at every offset j of its frame: no    *)
(* slice response[j : j + kernel_duration] is clipped.                     *)
(***************************************************************************)
C27_ViewWithinPadding ==
    [][(cell_pc = "ACCUMULATING" /\ cell_hist'.views = cell_hist.views + 1) =>
          LET L == kernel_duration(rf)
              N == Ceil(cell_hist.stimulus_duration, rf.temporal_resolution)
              offsets == cell.i..(cell.i + cell.update_factor - 1)
          IN  /\ cell.i = cell_hist.views * cell.update_factor
              /\ cell'.i = cell_hist'.views * cell.update_factor
              /\ cell'.update_factor = cell.update_factor
              /\ \A buffer \in {cell'.response, cell'.mean, cell'.std} :
                    DOMAIN buffer = 0..(N + L - 1)
              /\ cell'.i <= N =>
                    /\ \A j \in offsets :
                          SliceLength(cell.response, j, j + L) = L
                    /\ SliceLength(cell.mean, cell.i, cell'.i) = cell.update_factor
                    /\ SliceLength(cell.std, cell.i, cell'.i) = cell.update_factor
                    /\ \E view_array \in Frames(rf, vs.background_luminance) :
                          LET time_course == TimeCourse(rf, view_array)
                          IN  \A n \in 0..(N + L - 1) :
                                 cell'.response[n] = cell.response[n] +
                                    Sum(Array([m \in 0..(L - 1) |->
                                        IF n - m \in offsets
                                        THEN time_course[m] ELSE 0]))]_vars

\* the last frame of a stimulus of two frames, each of two kernel steps and
\* seen through a kernel of three steps, has been viewed
C27_Witness ==
    /\ cell_pc = "ACCUMULATING"
    /\ cell_hist.views = 2
    /\ cell.update_factor = 2
    /\ kernel_duration(rf) = 3
    /\ cell.i = Ceil(cell_hist.stimulus_duration, rf.temporal_resolution)
    /\ ~cell_hist.blank

(***************************************************************************)
(* C28: in a single process with the on-disk cache enabled the index maps  *)
(* distinct identities to distinct ids, the ids are 0, 1, 2, ... without a *)
(* gap, every id of the index has a data file, and a call changes the      *)
(* index and the files at most by adding the identity it presents, when    *)
(* that is not in the index, under the next id and with a new data file:   *)
(* the entry and the data file of an identity already in the index are     *)
(* never written again.                                                    *)
(***************************************************************************)
\* the index numbers its identities 0, 1, 2, ... and every id has a file
IndexConsistent(d) ==
    /\ \A a, b \in DOMAIN d.index.map :
          d.index.map[a] = d.index.map[b] => a = b
    /\ Values(d.index.map) = 0..(Cardinality(DOMAIN d.index.map) - 1)
    /\ DOMAIN d.files = Values(d.index.map)
    /\ d.index.exists \/ d.index.map = EmptyDict

C28_IndexAppendOnly ==
    /\ []((mpi_size = 1 /\ parameters.cached) => IndexConsistent(disk))
    /\ [][(mpi_size = 1 /\ parameters.cached) =>
             LET known == DOMAIN disk.index.map
                 added == DOMAIN disk'.index.map \ known
             IN  /\ \A key \in known :
                       /\ key \in DOMAIN disk'.index.map
                       /\ disk'.index.map[key] = disk.index.map[key]
                       /\ disk'.files[disk.index.map[key]]
                             = disk.files[disk.index.map[key]]
                 /\ (last'.op = "process_input" /\ last'.key \in known
                        /\ ncalls' = ncalls + 1) => ~last'.writes /\ disk' = disk
                 /\ \A key \in added :
                       /\ last'.op = "process_input"
                       /\ last'.key = key
                       /\ last'.writes
                       /\ added = {key}
                       /\ disk'.index.map[key] = Cardinality(known)
                       /\ disk'.files[Cardinality(known)] = last'.used]_vars

\* B was presented first and A second, both were stored, and B, presented
\* again, was read from the cache
C28_Witness ==
    /\ mpi_size = 1
    /\ parameters.cached
    /\ ncalls = 3
    /\ disk.index.map = Put(Put(EmptyDict, <<"B", 0>>, 0), <<"A", 0>>, 1)
    /\ last.op = "process_input"
    /\ last.key = <<"B", 0>>
    /\ last.source = "disk"
    /\ last.error = "none"

(***************************************************************************)
(***************************************************************************)
(* run_workflow (controller.py): every rank of an MPI job makes its root   *)
(* directory with os.makedirs, which is not atomic: it tests whether the   *)
(* parent exists, makes the missing parents (an intermediate directory     *)
(* another process made meanwhile is accepted) and then makes the leaf,    *)
(* which must not exist.                                                   *)
(***************************************************************************)
MaxRanks == 3       \* mozaik.mpi_comm.size is 2..MaxRanks

\* str(mozaik.mpi_comm.rank)
RankStr(rank) == <<"0", "1", "2", "3", "4", "5", "6", "7", "8", "9">>[rank + 1]

\* parameters.results_dir, and ddir = result_directory_name(...), the same for
\* every rank
ResultsDir == <<"results_dir">>

RunDir == ResultsDir \o <<"ddir">>

\* Global.root_directory of a rank
RootDirectory(rank) ==
    IF rank # 0 THEN RunDir \o <<RankStr(rank)>> ELSE RunDir

\* os.path.split(name)[0]
Dirname(name) == SubSeq(name, 1, Len(name) - 1)

NotStarted == [pc |-> "start", name |-> <<>>]

WorkflowIdle ==
    /\ mpi_ranks = 0
    /\ filesystem = {}
    /\ root_directory = <<>>
    /\ rank_pc = <<>>

\* the job is started; the results directory may exist already, the directory
\* of the run does not
WorkflowInit ==
    /\ mpi_ranks \in 2..MaxRanks
    /\ filesystem \in {{}, {ResultsDir}}
    /\ root_directory = [rank \in 0..(mpi_ranks - 1) |-> <<>>]
    /\ rank_pc = [rank \in 0..(mpi_ranks - 1) |-> NotStarted]

\* Global.root_directory = ...; os.makedirs(Global.root_directory) is entered
SetRootDirectory(rank) ==
    /\ rank_pc[rank].pc = "start"
    /\ root_directory' = [root_directory EXCEPT ![rank] = RootDirectory(rank)]
    /\ rank_pc' = [rank_pc EXCEPT ![rank] = [pc |-> "exists",
                                             name |-> RootDirectory(rank)]]
    /\ UNCHANGED <<mpi_ranks, filesystem>>
    /\ UNCHANGED <<cellvars, retinavars, connvars, storevars>>

\* makedirs(name): if head and tail and not path.exists(head): makedirs(head)
PathExists(rank) ==
    /\ rank_pc[rank].pc = "exists"
    /\ LET name == rank_pc[rank].name
       IN  rank_pc' = [rank_pc EXCEPT ![rank] =
               IF Dirname(name) # <<>> /\ Dirname(name) \notin filesystem
               THEN [pc |-> "exists", name |-> Dirname(name)]
               ELSE [pc |-> "mkdir", name |-> name]]
    /\ UNCHANGED <<mpi_ranks, filesystem, root_directory>>
    /\ UNCHANGED <<cellvars, retinavars, connvars, storevars>>

\* makedirs(name): mkdir(name, mode); a FileExistsError of the makedirs(head)
\* of a parent is passed over, the one of the leaf is raised
Mkdir(rank) ==
    /\ rank_pc[rank].pc = "mkdir"
    /\ LET name == rank_pc[rank].name
           leaf == name = root_directory[rank]
           next == IF leaf THEN [pc |-> "done", name |-> name]
                   ELSE [pc |-> "mkdir",
                         name |-> SubSeq(root_directory[rank], 1, Len(name) + 1)]
       IN  IF Dirname(name) # <<>> /\ Dirname(name) \notin filesystem
           THEN /\ rank_pc' = [rank_pc EXCEPT ![rank] =
                                  [pc |-> "FileNotFoundError", name |-> name]]
                /\ filesystem' = filesystem
           ELSE IF name \in filesystem
           THEN /\ rank_pc' = [rank_pc EXCEPT ![rank] =
                                  IF leaf
                                  THEN [pc |-> "FileExistsError", name |-> name]
                                  ELSE next]
                /\ filesystem' = filesystem
           ELSE /\ rank_pc' = [rank_pc EXCEPT ![rank] = next]
                /\ filesystem' = filesystem \cup {name}
    /\ UNCHANGED <<mpi_ranks, root_directory>>
    /\ UNCHANGED <<cellvars, retinavars, connvars, storevars>>

WorkflowNext ==
    \/ \E rank \in 0..(mpi_ranks - 1) : SetRootDirectory(rank)
    \/ \E rank \in 0..(mpi_ranks - 1) : PathExists(rank)
    \/ \E rank \in 0..(mpi_ranks - 1) : Mkdir(rank)

(***************************************************************************)
(* C29: when run_workflow is started by N >= 2 ranks with the same results *)
(* directory and run name, no rank fails to make its root directory        *)
(* (results_dir + ddir + "/" for rank 0, that path + str(rank) + "/" for   *)
(* the others), whatever the order of the steps of the ranks.              *)
(***************************************************************************)
C29_EveryRankMakesItsDirectory ==
    \A rank \in DOMAIN rank_pc :
       /\ rank_pc[rank].pc \notin {"FileExistsError", "FileNotFoundError"}
       /\ rank_pc[rank].pc = "done" =>
             /\ root_directory[rank] \in filesystem
             /\ root_directory[rank] = IF rank = 0 THEN RunDir
                                       ELSE RunDir \o <<RankStr(rank)>>

(***************************************************************************)
(* PickledDataStoreNeoWrapper (storage/neo_neurotools_wrapper.py): a       *)
(* segment whose spike trains and analog signals are loaded from its       *)
(* pickle file on first use.  The object is its attribute full and the     *)
(* attributes _spiketrains and analogsignalarrays that load_full sets.     *)
(***************************************************************************)
MaxSegmentCalls == 3    \* calls made on one segment object

NeuronIds == {1, 2}     \* the neuron_id an accessor is asked for

\* the attributes load_full sets
LazyAttributes == {"_spiketrains", "analogsignalarrays"}

\* the names of the analog signals the accessors look for
SignalNames == {"v", "gsyn_exc", "gsyn_inh"}

\* the segments a file can hold: the source ids of the spike trains, and the
\* signals recorded, each with the source ids of its columns
StoredSegments ==
    {[spiketrains |-> ids, analogsignalarrays |-> [name \in names |-> {1}]] :
        ids \in {{1}, {1, 2}}, names \in {{}, {"v"}, SignalNames}}

NoAttributes == <<>>

\* del self.<name>
Del(dict, name) == [a \in DOMAIN dict \ {name} |-> dict[a]]

NoSegmentCall ==
    [op |-> "none", error |-> "none", loaded |-> FALSE, was_full |-> FALSE,
     returned |-> "None", state |-> [full |-> FALSE, dict |-> NoAttributes]]

SegmentIdle ==
    /\ segment = [full |-> FALSE, dict |-> NoAttributes]
    /\ segment_file = [spiketrains |-> {}, analogsignalarrays |-> <<>>]
    /\ segment_last = NoSegmentCall
    /\ segment_calls = 0

\* PickledDataStoreNeoWrapper(segment, identifier, datastore_path)
SegmentInit ==
    /\ segment = [full |-> FALSE, dict |-> NoAttributes]
    /\ segment_file \in StoredSegments
    /\ segment_last = NoSegmentCall
    /\ segment_calls = 0

\* load_full()
load_full(obj) ==
    [full |-> TRUE,
     dict |-> [a \in LazyAttributes |->
                  IF a = "_spiketrains" THEN segment_file.spiketrains
                  ELSE segment_file.analogsignalarrays]]

\* if not self.full: self.load_full()
Loaded(obj) == IF ~obj.full THEN load_full(obj) ELSE obj

\* an accessor was called: the object it leaves and what it returns
Accessed(op, obj, error, returned) ==
    /\ segment' = obj
    /\ segment_last' = [NoSegmentCall EXCEPT !.op = op, !.error = error,
                                             !.loaded = ~segment.full,
                                             !.was_full = segment.full,
                                             !.returned = returned]
    /\ segment_calls' = segment_calls + 1
    /\ UNCHANGED segment_file
    /\ UNCHANGED <<cellvars, retinavars, connvars, ctlvars>>

\* the property spiketrains (get_spiketrains)
GetSpiketrains ==
    /\ segment_calls < MaxSegmentCalls
    /\ LET obj == Loaded(segment)
       IN  Accessed("spiketrains", obj, "none", obj.dict["_spiketrains"])

\* get_vm, get_esyn, get_isyn(neuron_id): the column of neuron_id of the
\* first signal of that name
GetSignal ==
    /\ segment_calls < MaxSegmentCalls
    /\ \E name \in SignalNames, neuron_id \in NeuronIds :
          LET obj == Loaded(segment)
              arrays == obj.dict["analogsignalarrays"]
          IN  IF name \notin DOMAIN arrays
              THEN Accessed(name, obj, "none", "None")
              ELSE IF neuron_id \notin arrays[name]
              THEN Accessed(name, obj, "ValueError", "None")
              ELSE Accessed(name, obj, "none", <<name, neuron_id>>)

\* get_stored_vm_ids, get_stored_esyn_ids, get_stored_isyn_ids
GetStoredIds ==
    /\ segment_calls < MaxSegmentCalls
    /\ \E name \in SignalNames :
          LET obj == Loaded(segment)
              arrays == obj.dict["analogsignalarrays"]
          IN  IF name \notin DOMAIN arrays
              THEN Accessed("get_stored_ids", obj, "none", "None")
              ELSE Accessed("get_stored_ids", obj, "none", arrays[name])

\* get_stored_spike_train_ids
GetStoredSpikeTrainIds ==
    /\ segment_calls < MaxSegmentCalls
    /\ LET obj == Loaded(segment)
       IN  Accessed("get_stored_spike_train_ids", obj, "none",
                    obj.dict["_spiketrains"])

\* release(): self.full = False; del self._spiketrains; del self.analogsignalarrays
Release ==
    /\ segment_calls < MaxSegmentCalls
    /\ IF "_spiketrains" \notin DOMAIN segment.dict
       THEN Accessed("release", [segment EXCEPT !.full = FALSE],
                     "AttributeError", "None")
       ELSE Accessed("release",
                     [full |-> FALSE,
                      dict |-> Del(Del(segment.dict, "_spiketrains"),
                                   "analogsignalarrays")],
                     "none", "None")

\* __getstate__(): the object it leaves, and the dictionary it returns
getstate(obj) ==
    LET flag == obj.full
        after == [obj EXCEPT !.full = FALSE]
    IN  [object |-> after,
         result |-> IF flag
                    THEN [after EXCEPT !.dict = Del(Del(@, "_spiketrains"),
                                                    "analogsignalarrays")]
                    ELSE after]

\* the object is pickled
GetState ==
    /\ segment_calls < MaxSegmentCalls
    /\ \E pickled \in {getstate(segment)} :
          /\ segment' = pickled.object
          /\ segment_last' = [NoSegmentCall EXCEPT !.op = "__getstate__",
                                                   !.was_full = segment.full,
                                                   !.state = pickled.result]
    /\ segment_calls' = segment_calls + 1
    /\ UNCHANGED segment_file
    /\ UNCHANGED <<cellvars, retinavars, connvars, ctlvars>>

SegmentNext ==
    \/ GetSpiketrains
    \/ GetSignal
    \/ GetStoredIds
    \/ GetStoredSpikeTrainIds
    \/ Release
    \/ GetState

(***************************************************************************)
(* C30: whatever accessors, release() and pickling were called before, an  *)
(* accessor called while full is False loads the segment (full is True     *)
(* when it returns), and the state __getstate__ returns has full False and *)
(* holds neither _spiketrains nor analogsignalarrays, whether or not the   *)
(* segment was loaded when it was pickled.                                 *)
(***************************************************************************)
C30_PickledStateIsLazy ==
    /\ (segment_last.op \notin {"none", "release", "__getstate__"}
           /\ segment_last.loaded) =>
          /\ segment.full
          /\ DOMAIN segment.dict = LazyAttributes
    /\ segment_last.op = "__getstate__" =>
          /\ ~segment_last.state.full
          /\ DOMAIN segment_last.state.dict \cap LazyAttributes = {}

InitCell == CellInit /\ RetinaIdle /\ ConnIdle /\ WorkflowIdle /\ SegmentIdle

SpecCell == InitCell /\ [][CellNext]_vars

InitRetina == RetinaInit /\ CellIdle /\ ConnIdle /\ WorkflowIdle /\ SegmentIdle

SpecRetina == InitRetina /\ [][RetinaNext]_vars

InitConstruct == ConstructInit /\ CellIdle /\ RetinaIdle /\ WorkflowIdle /\ SegmentIdle

SpecConstruct == InitConstruct /\ [][ConstructNext]_vars

InitDelay == DelayInit /\ CellIdle /\ RetinaIdle /\ WorkflowIdle /\ SegmentIdle

SpecDelay == InitDelay /\ [][DelayNext]_vars

InitConnect == ConnectInit /\ CellIdle /\ RetinaIdle /\ WorkflowIdle /\ SegmentIdle

SpecConnect == InitConnect /\ [][ConnectNext]_vars

InitQuantize == QuantizeInit /\ RetinaIdle /\ ConnIdle /\ WorkflowIdle /\ SegmentIdle

SpecQuantize == InitQuantize /\ [][QuantizeNext]_vars

InitWorkflow == WorkflowInit /\ CellIdle /\ RetinaIdle /\ ConnIdle /\ SegmentIdle

SpecWorkflow == InitWorkflow /\ [][WorkflowNext]_vars

InitSegment == SegmentInit /\ CellIdle /\ RetinaIdle /\ ConnIdle /\ WorkflowIdle

SpecSegment == InitSegment /\ [][SegmentNext]_vars

====
